---- MODULE Spec2Model ----
(***************************************************************************)
(* Verification model of the AgiMate desktop agent's coordination kernel:  *)
(*   - core/server_client.py  ServerClient connect / disconnect /          *)
(*                            reconnect state machine                      *)
(*   - core/plugin_manager.py PluginManager discovery, lifecycle, routing  *)
(*   - core/event_bus.py      EventBus synchronous publish                 *)
(* Every coroutine is cut at its await points: one action per segment      *)
(* between two awaits, so that the interleavings of the asyncio event loop *)
(* are the interleavings of the actions.                                   *)
(***************************************************************************)
EXTENDS Integers, Sequences, FiniteSets, TLC

(***************************************************************************)
(* Bounds                                                                  *)
(***************************************************************************)
\* max_reconnect_attempts given to the ServerClient constructor (N)
MaxReconnectAttempts == 2
\* number of directly requested connect() coroutines that may be in flight
NumCallers == 2
\* number of streaming Client objects connect() may construct in one run
MaxClients == 2

ClientIds == 1..MaxClients

VARIABLES
    client,      \* the fields of the ServerClient object
    clients,     \* every centrifuge Client constructed so far: its state
    conn,        \* how many directly requested connect() coroutines wait in each await
    disc,        \* position of the disconnect() coroutine
    configured,  \* server_url and device_key are both non-empty
    g,           \* history of the run (what has happened since the last request)
    last,        \* the step that produced the current state
    http,        \* the send_trigger / retry_async call in progress
    app,         \* the Application coordinator: status, settings, its coroutines
    sub,         \* the ToolSubscriptionHandler: publications and dispatch tasks
    mcp,         \* the MCPServerManager: its trigger queue
    ws           \* the last _get_ws_url call: its inputs and its answer

connVars == <<client, clients, conn, disc, configured, g, last>>

extraVars == <<mcp, ws>>

clientVars == <<connVars, http, app, sub, extraVars>>

VARIABLES
    disk,        \* the plugin packages on disk: what loading each one does
    pm,          \* the PluginManager's collections
    plug,        \* the plugin objects: enabled and running flags
    hooks,       \* the hooks of each plugin that have been called
    pm_phase,    \* how far the coordinator's start-up sequence has got
    pm_result    \* what the last execute_tool call did

pmVars == <<disk, pm, plug, hooks, pm_phase, pm_result>>

VARIABLES
    sync_handlers,   \* EventBus._sync_handlers: topic -> list of handlers
    async_handlers,  \* EventBus._async_handlers
    pub              \* what the last publish call did

busVars == <<sync_handlers, async_handlers, pub>>

vars == <<clientVars, pmVars, busVars>>

(***************************************************************************)
(* ServerClient: helpers                                                   *)
(***************************************************************************)
\* Positions of a connect() sequence: the await it is suspended in.
ConnectPcs == {"fetch", "wsconnect", "subscribe"}

\* asyncio.Task held in _reconnect_task: "none" is None, "sleep" is the
\* task suspended in asyncio.sleep(delay), a ConnectPcs value is the task
\* suspended inside its connect() call, "done" is a finished task.
TaskPcs == {"none", "sleep", "done"} \cup ConnectPcs

\* _reconnect_task and not _reconnect_task.done()
TaskNotDone(s) == s.reconnect_task \notin {"none", "done"}

\* delays are in milliseconds
Ms == 1000

RECURSIVE Pow(_, _)
\* base ** e
Pow(base, e) == IF e = 0 THEN 1 ELSE base * Pow(base, e - 1)

Min(a, b) == IF a <= b THEN a ELSE b

\* the reconnect_interval settings tried: the default and one that
\* reaches the cap at the second attempt
ReconnectIntervals == {5 * Ms, 40 * Ms}

\* a backoff without the cap of 60 s
reconnect_delay_uncapped(reconnect_interval, reconnect_attempts) ==
    reconnect_interval * Pow(2, reconnect_attempts - 1)

\* _schedule_reconnect lines 485-490: the delay of the task created when
\* the counter has become reconnect_attempts
reconnect_delay(reconnect_interval, reconnect_attempts) ==
    Min(reconnect_interval * Pow(2, reconnect_attempts - 1), 60 * Ms)

\* _schedule_reconnect without the test of the task in _reconnect_task
schedule_reconnect_unguarded(s) ==
    IF ~s.should_reconnect THEN s
    ELSE IF s.reconnect_attempts >= MaxReconnectAttempts
         THEN [s EXCEPT !.should_reconnect = FALSE,
                        !.server_error = @ + 1]
    ELSE [s EXCEPT !.reconnect_attempts = @ + 1,
                   !.delay = reconnect_delay(s.reconnect_interval, s.reconnect_attempts + 1),
                   !.reconnect_task = "sleep",
                   !.tasks_alive = @ + 1]

\* ServerClient._schedule_reconnect; tasks_alive counts the tasks made by
\* asyncio.create_task(reconnect()) that have not ended
schedule_reconnect(s) ==
    IF ~s.should_reconnect THEN s
    ELSE IF TaskNotDone(s) THEN s
    ELSE IF s.reconnect_attempts >= MaxReconnectAttempts
         THEN [s EXCEPT !.should_reconnect = FALSE,
                        !.server_error = @ + 1]
    ELSE [s EXCEPT !.reconnect_attempts = @ + 1,
                   !.delay = reconnect_delay(s.reconnect_interval, s.reconnect_attempts + 1),
                   !.reconnect_task = "sleep",
                   !.tasks_alive = @ + 1]

\* the events _schedule_reconnect publishes (line 480)
events_schedule_reconnect(s) ==
    IF s.should_reconnect /\ ~TaskNotDone(s)
       /\ s.reconnect_attempts >= MaxReconnectAttempts
    THEN <<"server.error">> ELSE <<>>

\* _on_ws_connected that leaves the attempt counter alone
on_ws_connected_keeping_count(s) ==
    [s EXCEPT !.connected = TRUE]

\* ServerClient._on_ws_connected
on_ws_connected(s) ==
    [s EXCEPT !.connected = TRUE, !.reconnect_attempts = 0]

\* the events _on_ws_connected publishes (lines 191-193)
events_on_ws_connected(s) == <<"server.connected">>

\* ServerClient._on_ws_disconnected
on_ws_disconnected(s) ==
    schedule_reconnect([s EXCEPT !.connected = FALSE])

\* the events _on_ws_disconnected publishes (lines 199-202)
events_on_ws_disconnected(s) ==
    <<"server.disconnected">> \o events_schedule_reconnect([s EXCEPT !.connected = FALSE])

\* connect(): the token fetch returned False (lines 389-392)
connect_fetch_failed(s) == schedule_reconnect(s)

\* the events of lines 389-392
events_connect_fetch_failed(s) == events_schedule_reconnect(s)

\* connect(): the except branch (lines 425-429)
connect_except(s) == schedule_reconnect([s EXCEPT !.connected = FALSE])

\* the events of lines 425-429
events_connect_except(s) == events_schedule_reconnect([s EXCEPT !.connected = FALSE])

\* _fetch_centrifugo_tokens, status 200: tokens, channel and wsUrl cached
fetch_centrifugo_tokens(s, url) ==
    [s EXCEPT !.tokens = TRUE, !.ws_url = url]

\* disconnect(): lines 433-438
disconnect_begin(s) ==
    [s EXCEPT !.should_reconnect = FALSE,
              !.reconnect_attempts = 0,
              !.reconnect_task = "none",
              !.delay = 0,
              !.tasks_alive = IF TaskNotDone(s) THEN @ - 1 ELSE @]

\* disconnect(): lines 457-461
disconnect_clear(s) ==
    [s EXCEPT !.tokens = FALSE, !.ws_url = FALSE]

\* disconnect(): the finally branch, lines 452-455
disconnect_finally(s) ==
    [s EXCEPT !.ws_client = 0, !.connected = FALSE]

\* The next Client object to construct (0 when the bound is used up)
FreshClient ==
    IF \E c \in ClientIds : clients[c] = "unused"
    THEN CHOOSE c \in ClientIds :
            clients[c] = "unused" /\ \A d \in ClientIds : d < c => clients[d] # "unused"
    ELSE 0

LiveClients == {c \in ClientIds : clients[c] = "live"}

\* connect() sequences in progress, directly requested or run by the task
DirectInProgress == conn["fetch"] + conn["wsconnect"] + conn["subscribe"]
TaskInConnect == client.reconnect_task \in ConnectPcs
ConnectsInProgress == DirectInProgress + (IF TaskInConnect THEN 1 ELSE 0)

\* A reconnect is pending (timer armed) or running
RetryPending(s) == s.reconnect_task \in ({"sleep"} \cup ConnectPcs)

InitClient ==
    [should_reconnect |-> FALSE, reconnect_attempts |-> 0,
     reconnect_task |-> "none", ws_client |-> 0, subscription |-> 0,
     connected |-> FALSE, tokens |-> FALSE, ws_url |-> FALSE,
     server_error |-> 0, tasks_alive |-> 0,
     reconnect_interval |-> 5 * Ms, delay |-> 0]

InitG ==
    [req |-> FALSE, ok |-> FALSE, disc |-> FALSE,
     since_disc |-> "none", task_inflight |-> FALSE,
     direct_inflight |-> FALSE, ceiling |-> FALSE, status |-> "off"]

\* Application._handle_server_connected / _disconnected / _error: the
\* status the coordinator shows after the events, published in order;
\* "off": no coordinator is attached
handle_server_events(status, events) ==
    IF status = "off" \/ events = <<>> THEN status
    ELSE LET topic == events[Len(events)] IN
         CASE topic = "server.connected" -> "CONNECTED"
           [] topic = "server.disconnected" -> "DISCONNECTED"
           [] topic = "server.error" -> "ERROR"

\* Application._handle_connect_request, line 174 (_connect_with_linking,
\* line 251): CONNECTING is shown before connect() is called
handle_connect_request(status) ==
    IF status = "off" THEN status ELSE "CONNECTING"

\* events: the topics the step published on the EventBus, in order
StepE(op, who, events) ==
    [op |-> op, who |-> who, after_ceiling |-> FALSE, events |-> events]

Step(op, who) == StepE(op, who, <<>>)

\* The other components at rest (their own specifications move them)
PMIdle ==
    /\ disk = <<>>
    /\ pm = [triggers |-> <<>>, tools |-> <<>>, tool_handlers |-> <<>>,
             plugin_errors |-> <<>>]
    /\ plug = <<>>
    /\ hooks = <<>>
    /\ pm_phase = "off"
    /\ pm_result = <<>>

BusIdle ==
    /\ sync_handlers = <<>>
    /\ async_handlers = <<>>
    /\ pub = <<>>

\* no HTTP call in progress
HttpIdle == http = [op |-> "idle"]

\* the coordinator is not running
AppIdle == app = [pc |-> "off"]

\* no subscription handler has been constructed
SubIdle == sub = [pc |-> "off"]

\* no MCP server manager has been constructed and no streaming URL asked for
ExtraIdle == mcp = [pc |-> "off"] /\ ws = [op |-> "off"]

ClientIdle ==
    /\ HttpIdle
    /\ AppIdle
    /\ SubIdle
    /\ ExtraIdle
    /\ client = InitClient
    /\ clients = [c \in ClientIds |-> "unused"]
    /\ conn = [pc \in ConnectPcs |-> 0]
    /\ disc = [pc |-> "idle", target |-> 0]
    /\ configured = FALSE
    /\ g = InitG
    /\ last = Step("off", "env")

ClientInit ==
    /\ HttpIdle
    /\ AppIdle
    /\ SubIdle
    /\ ExtraIdle
    /\ client \in {[InitClient EXCEPT !.reconnect_interval = i] : i \in ReconnectIntervals}
    /\ clients = [c \in ClientIds |-> "unused"]
    /\ conn = [pc \in ConnectPcs |-> 0]
    /\ disc = [pc |-> "idle", target |-> 0]
    /\ configured \in BOOLEAN
    /\ g = InitG
    /\ last = Step("init", "env")

\* g.ceiling: a max_retries error was published and connect() has not been
\* requested since.
NoteCeiling(s2) ==
    [g EXCEPT !.ceiling = @ \/ s2.server_error > client.server_error]


(***************************************************************************)
(* ServerClient.connect, run by a direct caller (Application creates one   *)
(* task per request) or by the reconnect task.                             *)
(***************************************************************************)
\* a connect() that creates the subscription together with the Client,
\* before the connection has been opened
connect_open_subscribing(s, url, c) ==
    [fetch_centrifugo_tokens(s, url) EXCEPT !.ws_client = c, !.subscription = c]

\* connect() lines 394-411: the tokens are cached, a new Client replaces
\* _ws_client and its connect() is awaited
connect_open(s, url, c) ==
    [fetch_centrifugo_tokens(s, url) EXCEPT !.ws_client = c]

\* connect() lines 415-421: the subscription is created on _ws_client
connect_subscribe(s) ==
    [s EXCEPT !.subscription = s.ws_client]

\* the reconnect task's coroutine returns: the task is done
TaskReturn(s) ==
    IF s.reconnect_task \in ConnectPcs
    THEN [s EXCEPT !.reconnect_task = "done", !.tasks_alive = @ - 1] ELSE s

\* connect() is called: lines 381-385.  The count of published errors
\* restarts with every explicit request.
ConnectCall ==
    /\ DirectInProgress < NumCallers
    /\ IF ~configured
       THEN /\ UNCHANGED <<client, conn>>
            /\ g' = [g EXCEPT !.status = handle_connect_request(@)]
            /\ last' = Step("connect_skipped", "direct")
       ELSE /\ client' = [client EXCEPT !.should_reconnect = TRUE,
                                        !.server_error = 0]
            /\ conn' = [conn EXCEPT !["fetch"] = @ + 1]
            /\ g' = [g EXCEPT !.req = TRUE, !.ok = FALSE, !.disc = FALSE,
                              !.since_disc = "none", !.direct_inflight = FALSE,
                              !.ceiling = FALSE,
                              !.status = handle_connect_request(@)]
            /\ last' = [op |-> "connect_called", who |-> "direct",
                        after_ceiling |-> g.ceiling, events |-> <<>>]
    /\ UNCHANGED <<clients, disc, configured>>
    /\ UNCHANGED <<http, app, sub, extraVars, pmVars, busVars>>

FetchOk(url) ==
    /\ conn["fetch"] > 0
    /\ FreshClient # 0
    /\ client' = connect_open(client, url, FreshClient)
    /\ clients' = [clients EXCEPT ![FreshClient] = "live"]
    /\ conn' = [conn EXCEPT !["fetch"] = @ - 1, !["wsconnect"] = @ + 1]
    /\ last' = Step("connect_step", "direct")
    /\ UNCHANGED <<disc, configured, g>>
    /\ UNCHANGED <<http, app, sub, extraVars, pmVars, busVars>>

FetchFail ==
    /\ conn["fetch"] > 0
    /\ client' = connect_fetch_failed(client)
    /\ conn' = [conn EXCEPT !["fetch"] = @ - 1]
    /\ g' = [NoteCeiling(client') EXCEPT
               !.status = handle_server_events(@, events_connect_fetch_failed(client))]
    /\ last' = StepE("connect_failed", "direct", events_connect_fetch_failed(client))
    /\ UNCHANGED <<clients, disc, configured>>
    /\ UNCHANGED <<http, app, sub, extraVars, pmVars, busVars>>

WsConnectOk ==
    /\ conn["wsconnect"] > 0
    /\ client.ws_client # 0
    /\ client' = connect_subscribe(client)
    /\ conn' = [conn EXCEPT !["wsconnect"] = @ - 1, !["subscribe"] = @ + 1]
    /\ last' = Step("connect_step", "direct")
    /\ UNCHANGED <<clients, disc, configured, g>>
    /\ UNCHANGED <<http, app, sub, extraVars, pmVars, busVars>>

\* Client.connect() raised, or _ws_client is None by now, or
\* new_subscription raised
WsConnectFail ==
    /\ conn["wsconnect"] > 0
    /\ client' = connect_except(client)
    /\ conn' = [conn EXCEPT !["wsconnect"] = @ - 1]
    /\ g' = [NoteCeiling(client') EXCEPT
               !.status = handle_server_events(@, events_connect_except(client))]
    /\ last' = StepE("connect_failed", "direct", events_connect_except(client))
    /\ UNCHANGED <<clients, disc, configured>>
    /\ UNCHANGED <<http, app, sub, extraVars, pmVars, busVars>>

SubscribeOk ==
    /\ conn["subscribe"] > 0
    /\ conn' = [conn EXCEPT !["subscribe"] = @ - 1]
    /\ g' = [g EXCEPT !.ok = TRUE]
    /\ last' = Step("connect_returned_true", "direct")
    /\ UNCHANGED <<client, clients, disc, configured>>
    /\ UNCHANGED <<http, app, sub, extraVars, pmVars, busVars>>

SubscribeFail ==
    /\ conn["subscribe"] > 0
    /\ client' = connect_except(client)
    /\ conn' = [conn EXCEPT !["subscribe"] = @ - 1]
    /\ g' = [NoteCeiling(client') EXCEPT
               !.status = handle_server_events(@, events_connect_except(client))]
    /\ last' = StepE("connect_failed", "direct", events_connect_except(client))
    /\ UNCHANGED <<clients, disc, configured>>
    /\ UNCHANGED <<http, app, sub, extraVars, pmVars, busVars>>

(***************************************************************************)
(* _schedule_reconnect.reconnect: the reconnect task                       *)
(***************************************************************************)
\* asyncio.sleep(delay) is over: lines 494-499 and connect() up to its
\* first await; client.delay is the delay of the sleeping task, 0 without one
TaskWake ==
    /\ client.reconnect_task = "sleep"
    /\ IF client.should_reconnect /\ configured
       THEN /\ client' = [client EXCEPT !.should_reconnect = TRUE,
                                        !.delay = 0,
                                        !.reconnect_task = "fetch"]
            /\ last' = Step("connect_called", "task")
       ELSE /\ client' = [client EXCEPT !.reconnect_task = "done",
                                        !.delay = 0,
                                        !.tasks_alive = @ - 1]
            /\ last' = Step("task_skipped", "task")
    /\ UNCHANGED <<clients, conn, disc, configured, g>>
    /\ UNCHANGED <<http, app, sub, extraVars, pmVars, busVars>>

TaskFetchOk(url) ==
    /\ client.reconnect_task = "fetch"
    /\ FreshClient # 0
    /\ client' = [connect_open(client, url, FreshClient)
                    EXCEPT !.reconnect_task = "wsconnect"]
    /\ clients' = [clients EXCEPT ![FreshClient] = "live"]
    /\ last' = Step("connect_step", "task")
    /\ UNCHANGED <<conn, disc, configured, g>>
    /\ UNCHANGED <<http, app, sub, extraVars, pmVars, busVars>>

TaskFetchFail ==
    /\ client.reconnect_task = "fetch"
    /\ client' = TaskReturn(connect_fetch_failed(client))
    /\ g' = [NoteCeiling(client') EXCEPT
               !.status = handle_server_events(@, events_connect_fetch_failed(client))]
    /\ last' = StepE("connect_failed", "task", events_connect_fetch_failed(client))
    /\ UNCHANGED <<clients, conn, disc, configured>>
    /\ UNCHANGED <<http, app, sub, extraVars, pmVars, busVars>>

TaskWsConnectOk ==
    /\ client.reconnect_task = "wsconnect"
    /\ client.ws_client # 0
    /\ client' = [connect_subscribe(client) EXCEPT !.reconnect_task = "subscribe"]
    /\ last' = Step("connect_step", "task")
    /\ UNCHANGED <<clients, conn, disc, configured, g>>
    /\ UNCHANGED <<http, app, sub, extraVars, pmVars, busVars>>

TaskWsConnectFail ==
    /\ client.reconnect_task = "wsconnect"
    /\ client' = TaskReturn(connect_except(client))
    /\ g' = [NoteCeiling(client') EXCEPT
               !.status = handle_server_events(@, events_connect_except(client))]
    /\ last' = StepE("connect_failed", "task", events_connect_except(client))
    /\ UNCHANGED <<clients, conn, disc, configured>>
    /\ UNCHANGED <<http, app, sub, extraVars, pmVars, busVars>>

TaskSubscribeOk ==
    /\ client.reconnect_task = "subscribe"
    /\ client' = TaskReturn(client)
    /\ g' = [g EXCEPT !.ok = TRUE]
    /\ last' = Step("connect_returned_true", "task")
    /\ UNCHANGED <<clients, conn, disc, configured>>
    /\ UNCHANGED <<http, app, sub, extraVars, pmVars, busVars>>

TaskSubscribeFail ==
    /\ client.reconnect_task = "subscribe"
    /\ client' = TaskReturn(connect_except(client))
    /\ g' = [NoteCeiling(client') EXCEPT
               !.status = handle_server_events(@, events_connect_except(client))]
    /\ last' = StepE("connect_failed", "task", events_connect_except(client))
    /\ UNCHANGED <<clients, conn, disc, configured>>
    /\ UNCHANGED <<http, app, sub, extraVars, pmVars, busVars>>

(***************************************************************************)
(* ServerClient.disconnect                                                 *)
(***************************************************************************)
\* what is left of disconnect() once the subscription is dealt with:
\* lines 447-461
DisconnectRest(s, called) ==
    IF s.ws_client # 0
    THEN /\ client' = s
         /\ disc' = [pc |-> "wsdisc", target |-> s.ws_client]
         /\ last' = Step(IF called THEN "disconnect_called" ELSE "disconnect_step",
                         "direct")
         /\ g' = [g EXCEPT
                    !.disc = TRUE,
                    !.since_disc = IF called THEN "running" ELSE @,
                    !.task_inflight = IF called THEN RetryPending(client) ELSE @,
                    !.direct_inflight = IF called THEN DirectInProgress > 0 ELSE @]
    ELSE /\ client' = disconnect_clear(s)
         /\ disc' = [pc |-> "idle", target |-> 0]
         /\ last' = Step("disconnect_returned", "direct")
         /\ g' = [g EXCEPT
                    !.disc = TRUE,
                    !.since_disc = IF called \/ @ = "running" THEN "returned" ELSE @,
                    !.task_inflight = IF called THEN RetryPending(client) ELSE @,
                    !.direct_inflight = IF called THEN DirectInProgress > 0 ELSE @]

\* disconnect() is called: lines 433-442
DisconnectCall ==
    /\ disc.pc = "idle"
    /\ LET s == disconnect_begin(client) IN
       IF s.subscription # 0
       THEN /\ client' = s
            /\ disc' = [pc |-> "unsub", target |-> 0]
            /\ last' = Step("disconnect_called", "direct")
            /\ g' = [g EXCEPT !.disc = TRUE, !.since_disc = "running",
                              !.task_inflight = RetryPending(client),
                              !.direct_inflight = DirectInProgress > 0]
       ELSE DisconnectRest(s, TRUE)
    /\ UNCHANGED <<clients, conn, configured>>
    /\ UNCHANGED <<http, app, sub, extraVars, pmVars, busVars>>

\* unsubscribe() is over (it returned or raised): lines 443-449
DisconnectUnsubscribed ==
    /\ disc.pc = "unsub"
    /\ DisconnectRest([client EXCEPT !.subscription = 0], FALSE)
    /\ UNCHANGED <<clients, conn, configured>>
    /\ UNCHANGED <<http, app, sub, extraVars, pmVars, busVars>>

\* Client.disconnect() is over (it returned or raised): lines 450-461
DisconnectWsClosed ==
    /\ disc.pc = "wsdisc"
    /\ clients' = [clients EXCEPT ![disc.target] = "closed"]
    /\ client' = disconnect_clear(disconnect_finally(client))
    /\ disc' = [pc |-> "idle", target |-> 0]
    /\ last' = Step("disconnect_returned", "direct")
    /\ g' = [g EXCEPT !.since_disc = IF @ = "running" THEN "returned" ELSE @]
    /\ UNCHANGED <<conn, configured>>
    /\ UNCHANGED <<http, app, sub, extraVars, pmVars, busVars>>

(***************************************************************************)
(* The transport: ClientHandler.on_connected / on_disconnected of any      *)
(* Client object that was constructed and has not been closed.             *)
(***************************************************************************)
TransportConnected(c) ==
    /\ clients[c] = "live"
    /\ client' = on_ws_connected(client)
    /\ g' = [g EXCEPT !.ok = TRUE,
                      !.status = handle_server_events(@, events_on_ws_connected(client))]
    /\ last' = StepE("ws_connected", "env", events_on_ws_connected(client))
    /\ UNCHANGED <<clients, conn, disc, configured>>
    /\ UNCHANGED <<http, app, sub, extraVars, pmVars, busVars>>

TransportDropped(c) ==
    /\ clients[c] = "live"
    /\ clients' = [clients EXCEPT ![c] = "closed"]
    /\ client' = on_ws_disconnected(client)
    /\ g' = [NoteCeiling(client') EXCEPT
               !.status = handle_server_events(@, events_on_ws_disconnected(client))]
    /\ last' = StepE("ws_dropped", "env", events_on_ws_disconnected(client))
    /\ UNCHANGED <<conn, disc, configured>>
    /\ UNCHANGED <<http, app, sub, extraVars, pmVars, busVars>>

ClientNext ==
    \/ ConnectCall
    \/ \E url \in BOOLEAN : FetchOk(url)
    \/ FetchFail
    \/ WsConnectOk
    \/ WsConnectFail
    \/ SubscribeOk
    \/ SubscribeFail
    \/ TaskWake
    \/ \E url \in BOOLEAN : TaskFetchOk(url)
    \/ TaskFetchFail
    \/ TaskWsConnectOk
    \/ TaskWsConnectFail
    \/ TaskSubscribeOk
    \/ TaskSubscribeFail
    \/ DisconnectCall
    \/ DisconnectUnsubscribed
    \/ DisconnectWsClosed
    \/ \E c \in ClientIds : TransportConnected(c)
    \/ \E c \in ClientIds : TransportDropped(c)

\* the client as constructed, the other components at rest
Init == ClientInit /\ PMIdle /\ BusIdle

Spec == Init /\ [][ClientNext]_vars


(***************************************************************************)
(* ServerClient: properties                                                *)
(***************************************************************************)
\* no connect() sequence is running and no reconnect is pending
Stopped == DirectInProgress = 0 /\ ~RetryPending(client)

\* C1: when every connect attempt since the explicit connect() failed (and
\* disconnect() was not called), the client stops retrying only by reaching
\* the ceiling: once it has stopped, exactly one max_retries error has been
\* published and auto-reconnect is off; there is never more than one such
\* error, and after it no reconnect is pending.
ClaimC1 ==
    /\ (g.req /\ ~g.ok /\ ~g.disc /\ Stopped)
          => (client.server_error = 1 /\ ~client.should_reconnect)
    /\ client.server_error <= 1
    /\ client.server_error = 1 => ~RetryPending(client)

\* C2: every connect() that fails while auto-reconnect is desired and the
\* attempt counter is below the ceiling leaves a retry scheduled, whoever
\* started that connect() (a direct caller or the reconnect task).
ClaimC2 ==
    [][(/\ last'.op = "connect_failed"
        /\ client.should_reconnect
        /\ client.reconnect_attempts < MaxReconnectAttempts)
          => RetryPending(client')]_vars

\* C3: when disconnect() returns (connect() not having been requested since
\* it was called) no reconnect task is held, the subscription and the
\* streaming client are released, tokens and endpoint URL are cleared and
\* the attempt counter is 0; from then on no reconnect is scheduled until
\* connect() is requested again.
ClaimC3 ==
    /\ (last.op = "disconnect_returned" /\ g.since_disc = "returned")
          => /\ client.reconnect_task = "none"
             /\ client.subscription = 0
             /\ client.ws_client = 0
             /\ ~client.tokens /\ ~client.ws_url
             /\ client.reconnect_attempts = 0
    /\ g.since_disc = "returned"
          => (client.reconnect_task = "none" /\ ~client.should_reconnect)

\* C4: when disconnect() is called while the reconnect task is in flight,
\* the task takes no step after that call, and when disconnect() returns the
\* client is not connected, holds no streaming client and no reconnect task.
ClaimC4 ==
    /\ (g.since_disc # "none" /\ g.task_inflight) => last.who # "task"
    /\ (last.op = "disconnect_returned" /\ g.since_disc = "returned"
            /\ g.task_inflight)
          => /\ ~client.connected
             /\ client.ws_client = 0
             /\ client.reconnect_task = "none"

\* C5: at most one connect() sequence is in progress at any time.
ClaimC5 == ConnectsInProgress <= 1

\* C6: after the ceiling was reached no retry is pending, and the explicit
\* connect() request that follows resets the attempt counter.
ClaimC6 ==
    /\ g.ceiling => ~RetryPending(client)
    /\ (last.op = "connect_called" /\ last.who = "direct" /\ last.after_ceiling)
          => client.reconnect_attempts = 0

\* C7: at most one streaming client is live: every Client that connect()
\* constructed earlier has been disconnected before a new one is made.
ClaimC7 == Cardinality(LiveClients) <= 1


(***************************************************************************)
(* PluginManager                                                           *)
(***************************************************************************)
\* plugin directories found under plugins/triggers and plugins/tools
NumPlugins == 2

PluginIds == 1..NumPlugins
ToolNames == {"a", "b"}
NameSets == {{"a"}, {"a", "b"}}

\* What _load_trigger / _load_tool meets for one directory:
\*   "ok"              the plugin loads and registers
\*   "load_throws"     _load_plugin throws (module, class, constructor, config)
\*   "register_throws" the plugin loads, then on_event (trigger) or
\*                     get_supported_tools (tool) throws
LoadOutcomes == {"ok", "load_throws", "register_throws"}

Hooks == {"initialize", "start", "stop", "shutdown"}

SeqToSet(s) == {s[i] : i \in 1..Len(s)}

\* iterdir() lists the directories in some order: the plugin ids number them
\* in that order (disk ranges over every assignment of contents to them)
DirOrder == [i \in 1..NumPlugins |-> i]

\* PluginManager._record_error
record_error(st, p, error_type, fatal) ==
    [st EXCEPT !.plugin_errors =
        Append(@, [plugin_id |-> p, error_type |-> error_type, fatal |-> fatal])]

\* PluginManager._load_trigger
load_trigger(st, p) ==
    CASE disk[p].load = "load_throws" ->
            record_error(st, p, "load", TRUE)
      [] disk[p].load = "register_throws" ->
            record_error([st EXCEPT !.triggers = Append(@, p)], p, "load", TRUE)
      [] OTHER ->
            [st EXCEPT !.triggers = Append(@, p)]

\* _load_tool that leaves a name with the tool that declared it first
load_tool_keeping_first(st, p) ==
    CASE disk[p].load = "load_throws" ->
            record_error(st, p, "load", TRUE)
      [] disk[p].load = "register_throws" ->
            record_error([st EXCEPT !.tools = Append(@, p)], p, "load", TRUE)
      [] OTHER ->
            [st EXCEPT !.tools = Append(@, p),
                       !.tool_handlers =
                           [n \in ToolNames |->
                               IF n \in disk[p].names /\ @[n] = 0 THEN p ELSE @[n]]]

\* PluginManager._load_tool
load_tool(st, p) ==
    CASE disk[p].load = "load_throws" ->
            record_error(st, p, "load", TRUE)
      [] disk[p].load = "register_throws" ->
            record_error([st EXCEPT !.tools = Append(@, p)], p, "load", TRUE)
      [] OTHER ->
            [st EXCEPT !.tools = Append(@, p),
                       !.tool_handlers =
                           [n \in ToolNames |-> IF n \in disk[p].names THEN p ELSE @[n]]]

RECURSIVE load_all_aborting(_, _)
RECURSIVE load_all(_, _)
\* loops whose first failing candidate ends the discovery
load_all_aborting(st, order) ==
    IF order = <<>> THEN st
    ELSE IF disk[Head(order)].load # "ok" THEN st
    ELSE load_all_aborting(IF disk[Head(order)].kind = "trigger"
                           THEN load_trigger(st, Head(order))
                           ELSE load_tool(st, Head(order)),
                           Tail(order))

\* the two loops of PluginManager.discover_plugins
load_all(st, order) ==
    IF order = <<>> THEN st
    ELSE load_all(IF disk[Head(order)].kind = "trigger"
                  THEN load_trigger(st, Head(order))
                  ELSE load_tool(st, Head(order)),
                  Tail(order))

\* PluginManager.get_failed_plugins: the ids with a fatal error
get_failed_plugins ==
    {pm.plugin_errors[i].plugin_id :
        i \in {j \in 1..Len(pm.plugin_errors) : pm.plugin_errors[j].fatal}}

RECURSIVE merge_capabilities_of_all(_, _)
RECURSIVE merge_capabilities(_, _)
\* a loop that merges the descriptors of disabled plugins too
merge_capabilities_of_all(seq, acc) ==
    IF seq = <<>> THEN acc
    ELSE merge_capabilities_of_all(
            Tail(seq),
            [n \in ToolNames |-> IF n \in disk[Head(seq)].names THEN Head(seq) ELSE acc[n]])

\* one loop of PluginManager.get_capabilities: name -> plugin whose
\* descriptor is in the map (0: the name is absent)
merge_capabilities(seq, acc) ==
    IF seq = <<>> THEN acc
    ELSE merge_capabilities(
            Tail(seq),
            IF plug[Head(seq)].enabled
            THEN [n \in ToolNames |-> IF n \in disk[Head(seq)].names THEN Head(seq) ELSE acc[n]]
            ELSE acc)

\* PluginManager.get_capabilities
get_capabilities ==
    [triggers |-> merge_capabilities(pm.triggers, [n \in ToolNames |-> 0]),
     tools |-> merge_capabilities(pm.tools, [n \in ToolNames |-> 0])]

\* execute_tool without the enabled check
execute_tool_unchecked(name, behaviour) ==
    LET handler == pm.tool_handlers[name] IN
    IF handler = 0
    THEN [raised |-> FALSE, success |-> FALSE, error |-> "no_handler",
          from |-> 0, executed |-> 0]
    ELSE IF behaviour.throws
    THEN [raised |-> FALSE, success |-> FALSE, error |-> "exception_message",
          from |-> 0, executed |-> handler]
    ELSE [raised |-> FALSE, success |-> behaviour.success,
          error |-> IF behaviour.success THEN "none" ELSE "plugin_error",
          from |-> handler, executed |-> handler]

\* PluginManager.execute_tool; behaviour is what the owner's execute does:
\* [throws |-> BOOLEAN, success |-> BOOLEAN]
execute_tool(name, behaviour) ==
    LET handler == pm.tool_handlers[name] IN
    IF handler = 0
    THEN [raised |-> FALSE, success |-> FALSE, error |-> "no_handler",
          from |-> 0, executed |-> 0]
    ELSE IF ~plug[handler].enabled
    THEN [raised |-> FALSE, success |-> FALSE, error |-> "disabled",
          from |-> 0, executed |-> 0]
    ELSE IF behaviour.throws
    THEN [raised |-> FALSE, success |-> FALSE, error |-> "exception_message",
          from |-> 0, executed |-> handler]
    ELSE [raised |-> FALSE, success |-> behaviour.success,
          error |-> IF behaviour.success THEN "none" ELSE "plugin_error",
          from |-> handler, executed |-> handler]

Behaviours ==
    {[throws |-> TRUE, success |-> FALSE],
     [throws |-> FALSE, success |-> TRUE],
     [throws |-> FALSE, success |-> FALSE]}

PMInit ==
    /\ disk \in [PluginIds -> [kind : {"trigger", "tool"}, load : LoadOutcomes,
                               names : NameSets]]
    /\ pm = [triggers |-> <<>>, tools |-> <<>>,
             tool_handlers |-> [n \in ToolNames |-> 0],
             plugin_errors |-> <<>>]
    /\ plug = [p \in PluginIds |-> [enabled |-> TRUE, running |-> FALSE]]
    /\ hooks = [p \in PluginIds |-> {}]
    /\ pm_phase = "new"
    /\ pm_result = [op |-> "other"]

\* the plugins in the manager's collections, triggers first
Registered == pm.triggers \o pm.tools

\* PluginManager.discover_plugins: triggers directory, then tools directory
DiscoverPlugins ==
    /\ pm_phase = "new"
    /\ LET trig == SelectSeq(DirOrder, LAMBDA p : disk[p].kind = "trigger")
           tool == SelectSeq(DirOrder, LAMBDA p : disk[p].kind = "tool")
       IN pm' = load_all(load_all(pm, trig), tool)
    /\ pm_phase' = "discovered"
    /\ pm_result' = [op |-> "other"]
    /\ UNCHANGED <<disk, plug, hooks>>
    /\ UNCHANGED <<clientVars, busVars>>

\* PluginManager.initialize_all; bad: the plugins whose initialize() throws
initialize_all(bad) ==
    LET called == SelectSeq(Registered, LAMBDA p : plug[p].enabled)
        failing == SelectSeq(called, LAMBDA p : p \in bad)
    IN [called |-> SeqToSet(called),
        threw |-> SeqToSet(failing),
        errors |-> [i \in 1..Len(failing) |->
                      [plugin_id |-> failing[i], error_type |-> "initialize",
                       fatal |-> FALSE]]]

\* a call of initialize_all during start-up
InitializeAll(bad) ==
    /\ pm_phase = "discovered"
    /\ bad \subseteq initialize_all({}).called    \* only a hook that is called throws
    /\ hooks' = [p \in PluginIds |->
                    IF p \in initialize_all(bad).called
                    THEN hooks[p] \cup {"initialize"} ELSE hooks[p]]
    /\ pm' = [pm EXCEPT !.plugin_errors = @ \o initialize_all(bad).errors]
    /\ pm_phase' = "initialized"
    /\ pm_result' = [op |-> "initialize_all", threw |-> initialize_all(bad).threw]
    /\ UNCHANGED <<disk, plug>>
    /\ UNCHANGED <<clientVars, busVars>>

\* start_triggers without the test of the running flag
start_triggers_restarting(bad) ==
    LET called == {p \in SeqToSet(pm.triggers) : plug[p].enabled}
    IN [called |-> called,
        threw |-> called \cap bad,
        plug |-> [p \in PluginIds |->
                    IF p \in called /\ p \notin bad
                    THEN [plug[p] EXCEPT !.running = TRUE] ELSE plug[p]]]

\* PluginManager.start_triggers; bad: the triggers whose start() throws.
\* A start() that returns has set the trigger's running flag.
start_triggers(bad) ==
    LET called == {p \in SeqToSet(pm.triggers) : plug[p].enabled /\ ~plug[p].running}
    IN [called |-> called,
        threw |-> called \cap bad,
        plug |-> [p \in PluginIds |->
                    IF p \in called /\ p \notin bad
                    THEN [plug[p] EXCEPT !.running = TRUE] ELSE plug[p]]]

\* a call of start_triggers
StartTriggers(bad) ==
    /\ pm_phase = "initialized"
    /\ bad \subseteq start_triggers({}).called
    /\ hooks' = [p \in PluginIds |->
                    IF p \in start_triggers(bad).called
                    THEN hooks[p] \cup {"start"} ELSE hooks[p]]
    /\ plug' = start_triggers(bad).plug
    /\ pm_result' = [op |-> "start_triggers",
                     called |-> start_triggers(bad).called,
                     threw |-> start_triggers(bad).threw]
    /\ UNCHANGED <<disk, pm, pm_phase>>
    /\ UNCHANGED <<clientVars, busVars>>

\* PluginManager.stop_triggers; bad: the triggers whose stop() throws
stop_triggers(bad) ==
    [called |-> {p \in SeqToSet(pm.triggers) : plug[p].running},
     threw |-> {p \in SeqToSet(pm.triggers) : plug[p].running /\ p \in bad},
     plug |-> [p \in PluginIds |->
                IF p \in SeqToSet(pm.triggers) /\ plug[p].running /\ p \notin bad
                THEN [plug[p] EXCEPT !.running = FALSE] ELSE plug[p]]]

StopTriggers(bad) ==
    /\ pm_phase = "initialized"
    /\ bad \subseteq stop_triggers({}).called
    /\ hooks' = [p \in PluginIds |->
                    IF p \in stop_triggers(bad).called
                    THEN hooks[p] \cup {"stop"} ELSE hooks[p]]
    /\ plug' = stop_triggers(bad).plug
    /\ pm_result' = [op |-> "stop_triggers",
                     called |-> stop_triggers(bad).called,
                     threw |-> stop_triggers(bad).threw]
    /\ UNCHANGED <<disk, pm, pm_phase>>
    /\ UNCHANGED <<clientVars, busVars>>

\* PluginManager.shutdown_all: stop_triggers, then every plugin's shutdown
ShutdownAll(bad) ==
    /\ pm_phase = "initialized"
    /\ bad \subseteq stop_triggers({}).called
    /\ hooks' = [p \in PluginIds |->
                    (hooks[p] \cup (IF p \in stop_triggers(bad).called THEN {"stop"} ELSE {}))
                    \cup (IF p \in SeqToSet(Registered) THEN {"shutdown"} ELSE {})]
    /\ plug' = stop_triggers(bad).plug
    /\ pm_phase' = "shutdown"
    /\ pm_result' = [op |-> "other"]
    /\ UNCHANGED <<disk, pm>>
    /\ UNCHANGED <<clientVars, busVars>>

\* PluginBase.set_config("enabled", b) on a registered plugin; a plugin
\* whose config.json disables it is one that is disabled right after loading
SetEnabled(p, b) ==
    /\ pm_phase \in {"discovered", "initialized"}
    /\ p \in SeqToSet(Registered)
    /\ plug[p].enabled # b
    /\ plug' = [plug EXCEPT ![p].enabled = b]
    /\ pm_result' = [op |-> "other"]
    /\ UNCHANGED <<disk, pm, hooks, pm_phase>>
    /\ UNCHANGED <<clientVars, busVars>>

\* a call of PluginManager.execute_tool(name, {})
ExecuteTool(name, behaviour) ==
    /\ pm_phase \in {"discovered", "initialized"}
    /\ LET r == execute_tool(name, behaviour) IN
       pm_result' = [op |-> "execute_tool", name |-> name,
                     behaviour |-> behaviour, result |-> r]
    /\ UNCHANGED <<disk, pm, plug, hooks, pm_phase>>
    /\ UNCHANGED <<clientVars, busVars>>

PMNext ==
    \/ DiscoverPlugins
    \/ \E bad \in SUBSET PluginIds : InitializeAll(bad)
    \/ \E bad \in SUBSET PluginIds : StartTriggers(bad)
    \/ \E bad \in SUBSET PluginIds : StopTriggers(bad)
    \/ \E bad \in SUBSET PluginIds : ShutdownAll(bad)
    \/ \E p \in PluginIds, b \in BOOLEAN : SetEnabled(p, b)

\* the lifecycle does not look at tool names: one name per plugin here
LifecycleInit ==
    /\ PMInit /\ \A p \in PluginIds : disk[p].names = {"a"}
    /\ ClientIdle /\ BusIdle

\* the plugin lifecycle, as the coordinator drives it
SpecPlugins == LifecycleInit /\ [][PMNext]_vars

\* a call of PluginManager.get_capabilities()
GetCapabilities ==
    /\ pm_phase \in {"discovered", "initialized"}
    /\ pm_result' = [op |-> "get_capabilities", result |-> get_capabilities]
    /\ UNCHANGED <<disk, pm, plug, hooks, pm_phase>>
    /\ UNCHANGED <<clientVars, busVars>>

ToolsNext ==
    \/ DiscoverPlugins
    \/ GetCapabilities
    \/ \E p \in PluginIds, b \in BOOLEAN : SetEnabled(p, b)
    \/ \E name \in ToolNames, behaviour \in Behaviours : ExecuteTool(name, behaviour)

\* tool routing: discovery, then execute_tool requests
ToolsInit == PMInit /\ ClientIdle /\ BusIdle

SpecTools == ToolsInit /\ [][ToolsNext]_vars

\* C8: a plugin with a fatal load error is, once discover_plugins() and
\* initialize_all() have run, in neither collection, owns no name of
\* get_capabilities(), is the route of no tool name, and has had no lifecycle
\* hook called
ClaimC8 ==
    pm_phase \in {"initialized", "shutdown"} =>
        \A p \in get_failed_plugins :
            /\ p \notin SeqToSet(pm.triggers)
            /\ p \notin SeqToSet(pm.tools)
            /\ \A n \in ToolNames :
                    /\ get_capabilities.triggers[n] # p
                    /\ get_capabilities.tools[n] # p
                    /\ pm.tool_handlers[n] # p
            /\ hooks[p] = {}

\* C9: execute_tool never raises; it answers success = false when the name
\* has no owner, when the owner is disabled (execute is not called) and when
\* the owner's execute throws (the error is the exception's message);
\* otherwise the answer is the owner's result
ClaimC9 ==
    pm_result.op = "execute_tool" =>
        LET r == pm_result.result
            h == pm.tool_handlers[pm_result.name]
            b == pm_result.behaviour
        IN /\ ~r.raised
           /\ h = 0 => ~r.success /\ r.executed = 0
           /\ (h # 0 /\ ~plug[h].enabled) => ~r.success /\ r.executed = 0
           /\ (h # 0 /\ plug[h].enabled /\ b.throws) =>
                  ~r.success /\ r.error = "exception_message" /\ r.executed = h
           /\ (h # 0 /\ plug[h].enabled /\ ~b.throws) =>
                  r.from = h /\ r.success = b.success /\ r.executed = h

\* a request for a name whose owner is disabled has been answered
WitnessC9 ==
    /\ pm_result.op = "execute_tool"
    /\ pm.tool_handlers[pm_result.name] # 0
    /\ ~plug[pm.tool_handlers[pm_result.name]].enabled
    /\ ~pm_result.result.success

\* ---------------------------------------------------------------------
\* EventBus (src/core/event_bus.py)

NumHandlers == 2
MaxSubs == 3

HandlerIds == 1..NumHandlers
BusTopics == {"plugin.event", "server.connected"}

\* a handler dict: topic -> list of handlers, for the topics that have a key
Registrations(d) ==
    IF DOMAIN d = {} THEN 0
    ELSE LET RECURSIVE Sum(_)
             Sum(S) == IF S = {} THEN 0
                       ELSE LET x == CHOOSE y \in S : TRUE
                            IN Len(d[x]) + Sum(S \ {x})
         IN Sum(DOMAIN d)

\* d[topic].append(handler), the key created when missing
append_handler(d, topic, handler) ==
    [x \in DOMAIN d \cup {topic} |->
        IF x = topic
        THEN (IF topic \in DOMAIN d THEN Append(d[topic], handler) ELSE <<handler>>)
        ELSE d[x]]

\* a removal that takes every occurrence of the handler out of the list
RECURSIVE remove_every(_, _)
remove_every(list, handler) ==
    IF list = <<>> THEN <<>>
    ELSE IF Head(list) = handler THEN remove_every(Tail(list), handler)
    ELSE <<Head(list)>> \o remove_every(Tail(list), handler)

\* list.remove(handler): the first occurrence goes; ValueError is passed over
RECURSIVE remove(_, _)
remove(list, handler) ==
    IF list = <<>> THEN <<>>
    ELSE IF Head(list) = handler THEN Tail(list)
    ELSE <<Head(list)>> \o remove(Tail(list), handler)

\* one of the two blocks of EventBus.unsubscribe
remove_handler(d, topic, handler) ==
    IF topic \in DOMAIN d THEN [d EXCEPT ![topic] = remove(@, handler)] ELSE d

\* the loop of a publish that lets a handler's exception out
RECURSIVE dispatch_unguarded(_, _, _)
dispatch_unguarded(list, throwers, acc) ==
    IF list = <<>> THEN [dispatched |-> acc, raised |-> FALSE]
    ELSE IF Head(list) \in throwers
         THEN [dispatched |-> Append(acc, Head(list)), raised |-> TRUE]
         ELSE dispatch_unguarded(Tail(list), throwers, Append(acc, Head(list)))

\* the loop of EventBus.publish over the handlers of one topic; throwers:
\* the handlers that throw when called. acc: the handlers called so far
RECURSIVE dispatch(_, _, _)
dispatch(list, throwers, acc) ==
    IF list = <<>> THEN [dispatched |-> acc, raised |-> FALSE]
    ELSE IF Head(list) \in throwers
         THEN dispatch(Tail(list), throwers, Append(acc, Head(list)))
         ELSE dispatch(Tail(list), throwers, Append(acc, Head(list)))

\* EventBus.publish
publish(topic, throwers) ==
    IF topic \notin DOMAIN sync_handlers
    THEN [dispatched |-> <<>>, raised |-> FALSE]
    ELSE dispatch(sync_handlers[topic], throwers, <<>>)

\* no publish_async call is suspended in its gather
NoPublishAsyncInFlight == pub.op = "publish_async" => pub.pc = "returned"

\* EventBus.__init__
BusInit ==
    /\ sync_handlers = <<>>
    /\ async_handlers = <<>>
    /\ pub = [op |-> "other"]

\* a subscribe that hands the new handler the event of an earlier publish
\* that found no handler
Subscribe_replaying(topic, handler) ==
    /\ NoPublishAsyncInFlight
    /\ Registrations(sync_handlers) + Registrations(async_handlers) < MaxSubs
    /\ sync_handlers' = append_handler(sync_handlers, topic, handler)
    /\ pub' = IF pub.op = "publish" /\ pub.topic = topic /\ pub.dispatched = <<>>
              THEN [pub EXCEPT !.dispatched = <<handler>>]
              ELSE [op |-> "other"]
    /\ UNCHANGED async_handlers
    /\ UNCHANGED <<clientVars, pmVars>>

\* EventBus.subscribe (the model records one publication at a time: no call
\* is made here while a publish_async waits in its gather)
Subscribe(topic, handler) ==
    /\ NoPublishAsyncInFlight
    /\ Registrations(sync_handlers) + Registrations(async_handlers) < MaxSubs
    /\ sync_handlers' = append_handler(sync_handlers, topic, handler)
    /\ pub' = [op |-> "other"]
    /\ UNCHANGED async_handlers
    /\ UNCHANGED <<clientVars, pmVars>>

\* EventBus.subscribe_async
SubscribeAsync(topic, handler) ==
    /\ Registrations(sync_handlers) + Registrations(async_handlers) < MaxSubs
    /\ async_handlers' = append_handler(async_handlers, topic, handler)
    /\ pub' = [op |-> "other"]
    /\ UNCHANGED sync_handlers
    /\ UNCHANGED <<clientVars, pmVars>>

\* EventBus.unsubscribe
Unsubscribe(topic, handler) ==
    /\ sync_handlers' = remove_handler(sync_handlers, topic, handler)
    /\ async_handlers' = remove_handler(async_handlers, topic, handler)
    /\ pub' = [op |-> "unsubscribe", topic |-> topic, handler |-> handler]
    /\ UNCHANGED <<clientVars, pmVars>>

\* a call of EventBus.publish(topic, data)
Publish(topic, throwers) ==
    /\ NoPublishAsyncInFlight
    /\ LET r == publish(topic, throwers) IN
       pub' = [op |-> "publish", topic |-> topic, throwers |-> throwers,
               dispatched |-> r.dispatched, raised |-> r.raised]
    /\ UNCHANGED <<sync_handlers, async_handlers>>
    /\ UNCHANGED <<clientVars, pmVars>>

BusNext ==
    \/ \E topic \in BusTopics, handler \in HandlerIds : Subscribe(topic, handler)
    \/ \E topic \in BusTopics, handler \in HandlerIds : SubscribeAsync(topic, handler)
    \/ \E topic \in BusTopics, handler \in HandlerIds : Unsubscribe(topic, handler)
    \/ \E topic \in BusTopics, throwers \in SUBSET HandlerIds : Publish(topic, throwers)

\* the event bus under subscriptions, removals and synchronous publishes
\* whose handlers return or throw
InitBus == BusInit /\ ClientIdle /\ PMIdle

SpecBus == InitBus /\ [][BusNext]_vars

\* C10: publish calls each synchronous handler registered for the topic
\* once per registration, in registration order, the ones after a throwing
\* handler included, calls no handler of another topic, and does not raise
ClaimC10 ==
    pub.op = "publish" =>
        /\ ~pub.raised
        /\ pub.dispatched = IF pub.topic \in DOMAIN sync_handlers
                            THEN sync_handlers[pub.topic] ELSE <<>>

\* a publish in which a handler threw and a handler registered after it was
\* called, while another topic had a handler of its own
WitnessC10 ==
    /\ pub.op = "publish"
    /\ \E i \in 1..Len(pub.dispatched) :
          /\ pub.dispatched[i] \in pub.throwers
          /\ i < Len(pub.dispatched)
    /\ \E t \in DOMAIN sync_handlers : t # pub.topic /\ sync_handlers[t] # <<>>

\* ---------------------------------------------------------------------
\* EventBus.publish_async

\* registrations in the asynchronous pool
MaxAsyncSubs == 2

\* the first loop of publish_async: one task per handler of the list, in
\* order; broken: the handlers whose call handler(data) throws, for which
\* no task exists ("nostart")
create_tasks(list, broken) ==
    [i \in 1..Len(list) |->
        [h |-> list[i], st |-> IF list[i] \in broken THEN "nostart" ELSE "pending"]]

Finished(task) == task.st \in {"done", "failed", "nostart"}

\* asyncio.gather(*tasks) without return_exceptions: the first failure is
\* raised into the caller at once
gather_raising(tasks) ==
    [ready |-> \/ \A i \in 1..Len(tasks) : Finished(tasks[i])
               \/ \E i \in 1..Len(tasks) : tasks[i].st = "failed",
     raised |-> \E i \in 1..Len(tasks) : tasks[i].st = "failed"]

\* asyncio.gather(*tasks, return_exceptions=True): ready once every task
\* has finished, the failures being results
gather(tasks) ==
    [ready |-> \A i \in 1..Len(tasks) : Finished(tasks[i]),
     raised |-> FALSE]

\* publish_async is called: lines 131-143, up to the await of gather.
\* Without a key for the topic, or without a task, it returns at once.
PublishAsyncCall(topic, broken) ==
    /\ NoPublishAsyncInFlight
    /\ LET list == IF topic \in DOMAIN async_handlers
                   THEN async_handlers[topic] ELSE <<>>
           tasks == create_tasks(list, broken)
       IN pub' = [op |-> "publish_async", topic |-> topic, handlers |-> list,
                  tasks |-> tasks, raised |-> FALSE,
                  pc |-> IF \E i \in 1..Len(tasks) : tasks[i].st = "pending"
                         THEN "gather" ELSE "returned"]
    /\ UNCHANGED <<sync_handlers, async_handlers>>
    /\ UNCHANGED <<clientVars, pmVars>>

\* the event loop starts a created task: the handler runs to its first await
HandlerStart(i) ==
    /\ pub.op = "publish_async"
    /\ i \in 1..Len(pub.tasks)
    /\ pub.tasks[i].st = "pending"
    /\ pub' = [pub EXCEPT !.tasks[i].st = "running"]
    /\ UNCHANGED <<sync_handlers, async_handlers>>
    /\ UNCHANGED <<clientVars, pmVars>>

\* a handler's coroutine ends: it returns (ok) or raises an Exception
HandlerFinish(i, ok) ==
    /\ pub.op = "publish_async"
    /\ i \in 1..Len(pub.tasks)
    /\ pub.tasks[i].st = "running"
    /\ pub' = [pub EXCEPT !.tasks[i].st = IF ok THEN "done" ELSE "failed"]
    /\ UNCHANGED <<sync_handlers, async_handlers>>
    /\ UNCHANGED <<clientVars, pmVars>>

\* the await of gather is over: lines 146-150
GatherReturn ==
    /\ pub.op = "publish_async"
    /\ pub.pc = "gather"
    /\ gather(pub.tasks).ready
    /\ pub' = [pub EXCEPT !.pc = "returned", !.raised = gather(pub.tasks).raised]
    /\ UNCHANGED <<sync_handlers, async_handlers>>
    /\ UNCHANGED <<clientVars, pmVars>>

\* EventBus.subscribe_async, also while a publish_async waits in its gather
\* (the record of a call that has returned is dropped)
AsyncSubscribe(topic, handler) ==
    /\ Registrations(async_handlers) < MaxAsyncSubs
    /\ async_handlers' = append_handler(async_handlers, topic, handler)
    /\ pub' = IF NoPublishAsyncInFlight THEN [op |-> "other"] ELSE pub
    /\ UNCHANGED sync_handlers
    /\ UNCHANGED <<clientVars, pmVars>>

\* EventBus.unsubscribe, also while a publish_async waits in its gather
AsyncUnsubscribe(topic, handler) ==
    /\ sync_handlers' = remove_handler(sync_handlers, topic, handler)
    /\ async_handlers' = remove_handler(async_handlers, topic, handler)
    /\ pub' = IF NoPublishAsyncInFlight THEN [op |-> "other"] ELSE pub
    /\ UNCHANGED <<clientVars, pmVars>>

BusAsyncNext ==
    \/ \E topic \in BusTopics, handler \in HandlerIds : AsyncSubscribe(topic, handler)
    \/ \E topic \in BusTopics, handler \in HandlerIds : AsyncUnsubscribe(topic, handler)
    \/ \E topic \in BusTopics, broken \in SUBSET HandlerIds : PublishAsyncCall(topic, broken)
    \/ \E i \in 1..MaxAsyncSubs : HandlerStart(i)
    \/ \E i \in 1..MaxAsyncSubs, ok \in BOOLEAN : HandlerFinish(i, ok)
    \/ GatherReturn

\* the event bus under asynchronous publishes
SpecBusAsync == InitBus /\ [][BusAsyncNext]_vars

\* C11: publish_async has a task for every asynchronous handler of the topic
\* before it waits, returns only when every one of them has finished, and
\* does not raise, whichever handlers fail
ClaimC11 ==
    pub.op = "publish_async" =>
        /\ ~pub.raised
        /\ Len(pub.tasks) = Len(pub.handlers)
        /\ \A i \in 1..Len(pub.tasks) :
              /\ pub.tasks[i].h = pub.handlers[i]
              /\ pub.pc = "returned" => Finished(pub.tasks[i])
              /\ pub.tasks[i].st = "nostart" \/ pub.pc = "gather" \/ pub.tasks[i].st # "pending"

\* publish_async has returned after one handler failed and a handler
\* created after it ran to its end
WitnessC11 ==
    /\ pub.op = "publish_async"
    /\ pub.pc = "returned"
    /\ \E i, j \in 1..Len(pub.tasks) :
          i < j /\ pub.tasks[i].st = "failed" /\ pub.tasks[j].st = "done"

\* ---------------------------------------------------------------------
\* retry_async (src/core/retry.py)

\* largest RetryConfig.max_attempts tried
MaxAttempts == 3

\* exceptions a wrapped function raises: the class and, for a
\* ClientResponseError, the HTTP status
NoStatus == 0
Exceptions ==
    [type : {"ConnectionError", "TimeoutError", "ClientConnectionError",
             "ValueError", "RuntimeError"}, status : {NoStatus}]
    \cup [type : {"ClientResponseError"}, status : {404, 500}]

\* the subclasses of aiohttp.ClientError among them
ClientErrors == {"ClientResponseError", "ClientConnectionError"}

\* what one call of the wrapped function does
FuncOutcomes ==
    {[kind |-> "return", value |-> "v"]}
    \cup {[kind |-> "raise", exc |-> e] : e \in Exceptions}

\* _is_transient_error
is_transient_error(exception) ==
    IF exception.type \in {"ConnectionError", "TimeoutError"} THEN TRUE
    ELSE IF exception.type \in ClientErrors
         THEN (IF exception.type = "ClientResponseError"
               THEN exception.status >= 500 ELSE TRUE)
    ELSE IF exception.type \in {"ValueError", "TypeError", "KeyError"} THEN FALSE
    ELSE FALSE

\* wrapper: a call of the wrapped function begins the loop at attempt 1
wrapper_begin(op, max_attempts) ==
    [op |-> op, max_attempts |-> max_attempts, attempt |-> 1,
     calls |-> <<>>, sleeps |-> 0, pc |-> "call",
     result |-> [kind |-> "none"], answer |-> "none", responses |-> <<>>]

\* a wrapper that sleeps and goes round again after the last attempt too
wrapper_after_call_unbounded(r, outcome) ==
    LET r1 == [r EXCEPT !.calls = Append(@, outcome)] IN
    IF outcome.kind = "return"
    THEN [r1 EXCEPT !.pc = "returned", !.result = outcome]
    ELSE IF ~is_transient_error(outcome.exc)
    THEN [r1 EXCEPT !.pc = "raised", !.result = outcome]
    ELSE [r1 EXCEPT !.pc = "sleep", !.sleeps = @ + 1]

\* wrapper, lines 94-122: the awaited call of attempt r.attempt is over
wrapper_after_call(r, outcome) ==
    LET r1 == [r EXCEPT !.calls = Append(@, outcome)] IN
    IF outcome.kind = "return"
    THEN [r1 EXCEPT !.pc = "returned", !.result = outcome]
    ELSE IF ~is_transient_error(outcome.exc)
    THEN [r1 EXCEPT !.pc = "raised", !.result = outcome]
    ELSE IF r.attempt >= r.max_attempts
    THEN [r1 EXCEPT !.pc = "raised", !.result = outcome]
    ELSE [r1 EXCEPT !.pc = "sleep", !.sleeps = @ + 1]

\* wrapper: asyncio.sleep(delay) is over, the loop goes to the next attempt
wrapper_after_sleep(r) ==
    [r EXCEPT !.attempt = @ + 1, !.pc = "call"]

\* a function decorated with retry_async(RetryConfig(max_attempts = n)) is called
RetryCall(n) ==
    /\ http.op = "idle"
    /\ http' = wrapper_begin("retry", n)
    /\ UNCHANGED <<connVars, app, sub, extraVars, pmVars, busVars>>

\* the wrapped function returns or raises
RetryFuncDone(outcome) ==
    /\ http.op = "retry"
    /\ http.pc = "call"
    /\ http.attempt <= http.max_attempts
    /\ http' = wrapper_after_call(http, outcome)
    /\ UNCHANGED <<connVars, app, sub, extraVars, pmVars, busVars>>

\* the backoff sleep is over
RetrySleepDone ==
    /\ http.op = "retry"
    /\ http.pc = "sleep"
    /\ http' = wrapper_after_sleep(http)
    /\ UNCHANGED <<connVars, app, sub, extraVars, pmVars, busVars>>

RetryNext ==
    \/ \E n \in 1..MaxAttempts : RetryCall(n)
    \/ \E outcome \in FuncOutcomes : RetryFuncDone(outcome)
    \/ RetrySleepDone

\* one call of a retry_async-wrapped function
SpecRetry == Init /\ [][RetryNext]_vars

Transient(outcome) == outcome.kind = "raise" /\ is_transient_error(outcome.exc)

\* C15: the wrapped function is called at most max_attempts times; the call
\* that returns, or raises a non-transient error, is the last one and its
\* value or exception is the wrapper's, with no sleep after it; calls that
\* all raise transient errors number max_attempts with max_attempts - 1
\* sleeps, and the last exception is re-raised
ClaimC15 ==
    http.op = "retry" =>
        LET n == Len(http.calls) IN
        /\ n <= http.max_attempts
        /\ \A i \in 1..n : i < n => Transient(http.calls[i])
        /\ http.pc = "call" => http.sleeps = n
        /\ http.pc = "sleep" => (http.sleeps = n /\ n < http.max_attempts
                                  /\ Transient(http.calls[n]))
        /\ http.pc = "returned" =>
              /\ http.calls[n].kind = "return"
              /\ http.result = http.calls[n]
              /\ http.sleeps = n - 1
        /\ http.pc = "raised" =>
              /\ http.calls[n].kind = "raise"
              /\ http.result = http.calls[n]
              /\ http.sleeps = n - 1
              /\ Transient(http.calls[n]) => n = http.max_attempts
              /\ ~Transient(http.calls[n]) =>
                    (n = 1 \/ Transient(http.calls[n - 1]))

\* every call raised a transient error and the budget of 3 is used up
WitnessC15 ==
    /\ http.op = "retry"
    /\ http.pc = "raised"
    /\ http.max_attempts = 3
    /\ Len(http.calls) = 3
    /\ http.sleeps = 2
    /\ Transient(http.calls[3])

\* ---------------------------------------------------------------------
\* ServerClient.send_trigger

\* RetryConfig(max_attempts=3) of _send_trigger_with_retry
TriggerMaxAttempts == 3

\* what the server does with one POST: an HTTP status, or no response
Statuses == {200, 204, 302, 404, 500, 503}
Responses ==
    [kind : {"status"}, status : Statuses]
    \cup [kind : {"timeout", "network"}, status : {NoStatus}]

\* a body that raises a plain ClientError for every status from 400 up
post_raising_from_400(response) ==
    IF response.kind = "timeout"
    THEN [kind |-> "raise", exc |-> [type |-> "TimeoutError", status |-> NoStatus]]
    ELSE IF response.kind = "network"
    THEN [kind |-> "raise", exc |-> [type |-> "ClientConnectionError", status |-> NoStatus]]
    ELSE IF response.status >= 400
    THEN [kind |-> "raise", exc |-> [type |-> "ClientConnectionError", status |-> NoStatus]]
    ELSE [kind |-> "return", value |-> response.status]

\* the body of _send_trigger_with_retry for one response
post(response) ==
    IF response.kind = "timeout"
    THEN [kind |-> "raise", exc |-> [type |-> "TimeoutError", status |-> NoStatus]]
    ELSE IF response.kind = "network"
    THEN [kind |-> "raise", exc |-> [type |-> "ClientConnectionError", status |-> NoStatus]]
    ELSE IF response.status >= 500
    THEN [kind |-> "raise", exc |-> [type |-> "ClientResponseError", status |-> response.status]]
    ELSE [kind |-> "return", value |-> response.status]

\* send_trigger, lines 246-260: what it makes of the wrapper's end
send_trigger_result(r) ==
    IF r.pc = "returned"
    THEN [r EXCEPT !.answer = IF r.result.value = 200 THEN "true" ELSE "false"]
    ELSE IF r.pc = "raised" THEN [r EXCEPT !.answer = "false"]
    ELSE r

\* send_trigger is called: lines 240-247
SendTriggerCall ==
    /\ http.op = "idle"
    /\ http' = IF configured
               THEN wrapper_begin("send_trigger", TriggerMaxAttempts)
               ELSE [wrapper_begin("send_trigger", TriggerMaxAttempts)
                        EXCEPT !.pc = "skipped", !.answer = "false"]
    /\ UNCHANGED <<connVars, app, sub, extraVars, pmVars, busVars>>

\* one POST is over
SendTriggerPostDone(response) ==
    /\ http.op = "send_trigger"
    /\ http.pc = "call"
    /\ http.attempt <= http.max_attempts
    /\ http' = send_trigger_result(
                    wrapper_after_call([http EXCEPT !.responses = Append(@, response)],
                                       post(response)))
    /\ UNCHANGED <<connVars, app, sub, extraVars, pmVars, busVars>>

\* the backoff sleep between two POSTs is over
SendTriggerSleepDone ==
    /\ http.op = "send_trigger"
    /\ http.pc = "sleep"
    /\ http' = wrapper_after_sleep(http)
    /\ UNCHANGED <<connVars, app, sub, extraVars, pmVars, busVars>>

TriggerNext ==
    \/ SendTriggerCall
    \/ \E response \in Responses : SendTriggerPostDone(response)
    \/ SendTriggerSleepDone

\* one call of send_trigger
SpecTrigger == Init /\ [][TriggerNext]_vars

Is(response, status) == response.kind = "status" /\ response.status = status
Is4xx(response) ==
    response.kind = "status" /\ response.status >= 400 /\ response.status < 500
Is2xx(response) ==
    response.kind = "status" /\ response.status >= 200 /\ response.status < 300

\* the server has answered 500 to three POSTs of this send_trigger call
ThreeTimes500 ==
    /\ http.op = "send_trigger"
    /\ Len(http.responses) = 3
    /\ \A i \in 1..3 : Is(http.responses[i], 500)

\* C12: when the server answers 500 three times (and would answer 200
\* after that), send_trigger returns true, with exactly 3 HTTP calls
ClaimC12 == ThreeTimes500 => http.answer = "true"

\* C12 amended: send_trigger never issues more than 3 HTTP calls; when the
\* server answers 500 three times send_trigger returns false after the
\* third call; it returns true with 3 calls when the answers are 500, 500, 200
AmendedC12 ==
    http.op = "send_trigger" =>
        /\ Len(http.responses) <= TriggerMaxAttempts
        /\ ThreeTimes500 => http.answer = "false"
        /\ (/\ Len(http.responses) = 3
            /\ Is(http.responses[1], 500) /\ Is(http.responses[2], 500)
            /\ Is(http.responses[3], 200)) => http.answer = "true"

\* three answers of 500 and the call has returned false
WitnessC12 == ThreeTimes500 /\ http.answer = "false" /\ http.sleeps = 2

\* C13: a 4xx response is the last request of its send_trigger call: no
\* sleep and no request follows it, and the call returns false; a call
\* whose first response is 4xx has issued exactly one request
ClaimC13 ==
    http.op = "send_trigger" =>
        \A i \in 1..Len(http.responses) :
            Is4xx(http.responses[i]) =>
                /\ i = Len(http.responses)
                /\ http.sleeps = i - 1
                /\ http.answer = "false"

\* 404 to the first request: one request, no sleep, false
WitnessC13 ==
    /\ http.op = "send_trigger"
    /\ http.responses = <<[kind |-> "status", status |-> 404]>>
    /\ http.sleeps = 0
    /\ http.answer = "false"

\* C14: send_trigger answers true exactly when the last response has a 2xx
\* status, and false for every other status, timeout or network error and
\* when the client is not configured; it answers by returning
ClaimC14 ==
    (http.op = "send_trigger" /\ http.pc \in {"returned", "raised", "skipped"}) =>
        /\ http.answer \in {"true", "false"}
        /\ http.answer = "true" <=>
              (http.responses # <<>> /\ Is2xx(http.responses[Len(http.responses)]))

\* ---------------------------------------------------------------------
\* ServerClient: events and reconnect tasks

\* how many times the step that led here published the topic
Count(events, topic) == Cardinality({i \in 1..Len(events) : events[i] = topic})

\* C16: a connect() attempt that fails, at whichever step, publishes a
\* server-disconnected event
ClaimC16 ==
    last.op = "connect_failed" => Count(last.events, "server.disconnected") >= 1

\* C17: at most one reconnect task is alive; a step creates one only when
\* auto-reconnect is desired and none is pending, and the attempt counter
\* grows only in a step that creates one
ClaimC17 ==
    [][/\ client'.tasks_alive <= 1
       /\ client'.tasks_alive > client.tasks_alive =>
             (~TaskNotDone(client) /\ client.should_reconnect)
       /\ client'.reconnect_attempts > client.reconnect_attempts =>
             (/\ client'.tasks_alive = client.tasks_alive + 1
              /\ client'.reconnect_attempts = client.reconnect_attempts + 1)
       /\ (TaskNotDone(client) /\ last'.op \in {"connect_failed", "ws_dropped"}) =>
             (/\ client'.reconnect_attempts = client.reconnect_attempts
              /\ client'.should_reconnect = client.should_reconnect
              /\ client'.server_error = client.server_error)]_vars

\* the transport dropped while a reconnect task was pending: nothing was
\* scheduled and the pending task is the only one
WitnessC17 ==
    /\ last.op = "ws_dropped"
    /\ TaskNotDone(client)
    /\ client.tasks_alive = 1
    /\ client.reconnect_attempts = 1
    /\ client.should_reconnect

\* C18: when the transport reports connected, connected is true, the
\* attempt counter is 0 and one server-connected event was published; when
\* it reports a drop, connected is false and one server-disconnected event
\* was published
ClaimC18 ==
    /\ last.op = "ws_connected" =>
          /\ client.connected
          /\ client.reconnect_attempts = 0
          /\ Count(last.events, "server.connected") = 1
          /\ Count(last.events, "server.disconnected") = 0
    /\ last.op = "ws_dropped" =>
          /\ ~client.connected
          /\ Count(last.events, "server.disconnected") = 1
          /\ Count(last.events, "server.connected") = 0

\* the transport reported connected after a retry: the counter is back at 0
\* while the reconnect task that connected is still running
WitnessC18 ==
    /\ last.op = "ws_connected"
    /\ client.connected
    /\ client.reconnect_attempts = 0
    /\ client.reconnect_task \in ConnectPcs

\* ---------------------------------------------------------------------
\* Application: the paths that start a connection (src/core/application.py)

\* ServerClient objects the coordinator constructs in one run
MaxServerClients == 3

\* coroutines of the coordinator suspended at the same time
MaxAppTasks == 2

ConnectionStatus == {"DISCONNECTED", "CONNECTING", "CONNECTED", "ERROR"}

\* what the coordinator called on its server client last
NoCall == [op |-> "none", on |-> 0, linked |-> FALSE]

\* Application.initialize is over: status DISCONNECTED, the first
\* ServerClient, configuration as loaded
AppInit ==
    /\ HttpIdle
    /\ SubIdle
    /\ ExtraIdle
    /\ client = InitClient
    /\ clients = [c \in ClientIds |-> "unused"]
    /\ conn = [pc \in ConnectPcs |-> 0]
    /\ disc = [pc |-> "idle", target |-> 0]
    /\ configured = FALSE
    /\ g = InitG
    /\ last = Step("off", "env")
    /\ PMIdle /\ BusIdle
    /\ \E dk \in BOOLEAN, ac \in BOOLEAN :
          app = [pc |-> "initialized", status |-> "DISCONNECTED",
                 device_key |-> dk, auto_connect |-> ac,
                 server_client |-> 1, linked |-> {}, closed |-> {},
                 tasks |-> <<>>, call |-> NoCall]

\* self.server_client.connect() is called
call_connect(a) ==
    [a EXCEPT !.call = [op |-> "connect", on |-> a.server_client,
                        linked |-> a.server_client \in a.linked]]

\* _connect_with_linking up to its await of link_device: lines 244-257
connect_with_linking_begin(a) ==
    IF ~a.device_key
    THEN [a EXCEPT !.status = "DISCONNECTED"]
    ELSE [a EXCEPT !.status = "CONNECTING",
                   !.tasks = Append(@, [kind |-> "link", on |-> a.server_client]),
                   !.call = [op |-> "link_device", on |-> a.server_client,
                             linked |-> a.server_client \in a.linked]]

\* _connect_with_linking after link_device returned: lines 258-269
connect_with_linking_end(a, on, linked) ==
    IF ~linked
    THEN [a EXCEPT !.status = "ERROR",
                   !.call = [op |-> "link_device_false", on |-> on, linked |-> FALSE]]
    ELSE call_connect([a EXCEPT !.linked = @ \cup {on}])

RemoveAt(s, i) == SubSeq(s, 1, i - 1) \o SubSeq(s, i + 1, Len(s))

\* Application.run reaches its auto-connect: lines 369-370
AppRun ==
    /\ app.pc = "initialized"
    /\ app' = IF app.auto_connect
              THEN connect_with_linking_begin([app EXCEPT !.pc = "running"])
              ELSE [app EXCEPT !.pc = "running"]
    /\ UNCHANGED <<connVars, http, sub, extraVars, pmVars, busVars>>

\* link_device returns to the _connect_with_linking that awaits it
LinkDeviceReturns(i, linked) ==
    /\ app.pc = "running"
    /\ i \in 1..Len(app.tasks)
    /\ app.tasks[i].kind = "link"
    /\ app' = connect_with_linking_end([app EXCEPT !.tasks = RemoveAt(@, i)],
                                        app.tasks[i].on, linked)
    /\ UNCHANGED <<connVars, http, sub, extraVars, pmVars, busVars>>

\* TrayManager._on_connect_clicked and the handler of the request:
\* _handle_connect_request or _handle_disconnect_request
ConnectClicked ==
    /\ app.pc = "running"
    /\ app.status # "CONNECTING"
    /\ app' = IF app.status = "CONNECTED"
              THEN [app EXCEPT !.call = [op |-> "disconnect", on |-> app.server_client,
                                         linked |-> app.server_client \in app.linked]]
              ELSE call_connect([app EXCEPT !.status = "CONNECTING"])
    /\ UNCHANGED <<connVars, http, sub, extraVars, pmVars, busVars>>

\* _handle_settings_changed: the configuration is reloaded and
\* _reconnect_server starts, up to its await of close()
SettingsChanged(dk, ac) ==
    /\ app.pc = "running"
    /\ Len(app.tasks) < MaxAppTasks
    /\ app' = [app EXCEPT !.device_key = dk, !.auto_connect = ac,
                           !.tasks = Append(@, [kind |-> "close", on |-> app.server_client]),
                           !.call = NoCall]
    /\ UNCHANGED <<connVars, http, sub, extraVars, pmVars, busVars>>

\* _reconnect_server after close(): a new ServerClient, lines 276-287
CloseReturns(i) ==
    /\ app.pc = "running"
    /\ i \in 1..Len(app.tasks)
    /\ app.tasks[i].kind = "close"
    /\ app.server_client < MaxServerClients
    /\ LET a == [app EXCEPT !.tasks = RemoveAt(@, i),
                             !.closed = @ \cup {app.tasks[i].on},
                             !.server_client = @ + 1, !.call = NoCall]
       IN app' = IF a.auto_connect THEN connect_with_linking_begin(a) ELSE a
    /\ UNCHANGED <<connVars, http, sub, extraVars, pmVars, busVars>>

\* _handle_server_connected / _disconnected / _error: the status follows
\* an event of the server client
ServerEvent(status) ==
    /\ app.pc = "running"
    /\ app.status # status
    /\ app' = [app EXCEPT !.status = status, !.call = NoCall]
    /\ UNCHANGED <<connVars, http, sub, extraVars, pmVars, busVars>>

AppNext ==
    \/ AppRun
    \/ \E i \in 1..MaxAppTasks, linked \in BOOLEAN : LinkDeviceReturns(i, linked)
    \/ ConnectClicked
    \/ \E dk \in BOOLEAN, ac \in BOOLEAN : SettingsChanged(dk, ac)
    \/ \E i \in 1..MaxAppTasks : CloseReturns(i)
    \/ \E status \in ConnectionStatus \ {"CONNECTING"} : ServerEvent(status)

\* the coordinator from the end of initialize()
SpecApp == AppInit /\ [][AppNext]_vars

\* C19: connect() is called on a server client only after link_device
\* returned true on that client, and a link_device that returns false
\* leaves the status ERROR with no connect() call
ClaimC19 ==
    app.pc = "running" =>
        /\ app.call.op = "connect" => app.call.linked
        /\ app.call.op = "link_device_false" => app.status = "ERROR"

\* ---------------------------------------------------------------------
\* the tools listed after p in the tools directory that load and serve n
LaterTools(p, n) ==
    {q \in PluginIds : q > p /\ disk[q].kind = "tool" /\ disk[q].load = "ok"
                                /\ n \in disk[q].names}

ErrorsOf(p) ==
    {pm.plugin_errors[i] : i \in {j \in 1..Len(pm.plugin_errors) :
                                     pm.plugin_errors[j].plugin_id = p}}

\* C21: initialize_all() has called initialize() on exactly the enabled
\* plugins of the collections, whichever of them threw; a plugin whose
\* initialize() threw has a non-fatal error recorded, is still in its
\* collection and is not among get_failed_plugins()
ClaimC21 ==
    pm_result.op = "initialize_all" =>
        /\ \A p \in PluginIds :
              "initialize" \in hooks[p] <=> (p \in SeqToSet(Registered) /\ plug[p].enabled)
        /\ \A p \in pm_result.threw :
              /\ \E e \in ErrorsOf(p) : e.error_type = "initialize" /\ ~e.fatal
              /\ p \in SeqToSet(Registered)
              /\ p \notin get_failed_plugins

\* ---------------------------------------------------------------------
\* the step is a call of op that directly follows a call of op
TwiceInARow(op) == pm_result.op = op /\ pm_result'.op = op

\* C22: start_triggers() calls start() only on enabled triggers that are
\* not running, stop_triggers() calls stop() only on running triggers; a
\* second call in a row reaches only the triggers whose hook threw in the
\* first, and when they throw again the state is the one the first call left
ClaimC22 ==
    [][/\ pm_result'.op = "start_triggers" =>
            \A p \in pm_result'.called : plug[p].enabled /\ ~plug[p].running
       /\ pm_result'.op = "stop_triggers" =>
            \A p \in pm_result'.called : plug[p].running
       /\ (TwiceInARow("start_triggers") \/ TwiceInARow("stop_triggers")) =>
            /\ pm_result'.called \subseteq pm_result.threw
            /\ pm_result'.threw = pm_result'.called => plug' = plug]_vars

\* a start_triggers() call has found an enabled trigger running and left it
\* alone
WitnessC22 ==
    /\ pm_result.op = "start_triggers"
    /\ pm_result.called = {}
    /\ \E p \in SeqToSet(pm.triggers) : plug[p].enabled /\ plug[p].running

\* ---------------------------------------------------------------------
\* C23: start() is called only on a trigger that is enabled and whose
\* initialize() was called and returned without error
ClaimC23 ==
    pm_result.op = "start_triggers" =>
        \A p \in pm_result.called :
            /\ disk[p].kind = "trigger"
            /\ plug[p].enabled
            /\ "initialize" \in hooks[p]
            /\ \A e \in ErrorsOf(p) : e.error_type # "initialize"

\* ---------------------------------------------------------------------
\* the loaded tool plugins that declare name n
Declaring(n) ==
    {p \in PluginIds : disk[p].kind = "tool" /\ disk[p].load = "ok" /\ n \in disk[p].names}

\* the plugin of a non-empty set that discovery loaded last
LastLoaded(S) == CHOOSE p \in S : \A q \in S : q <= p

\* C24: a tool name that several plugins declare is routed to the one
\* loaded last, execute_tool for it runs that plugin's execute or none,
\* and the override records no error: a plugin that loaded has none
ClaimC24 ==
    pm_phase = "discovered" =>
        /\ \A n \in ToolNames :
              Declaring(n) # {} => pm.tool_handlers[n] = LastLoaded(Declaring(n))
        /\ (pm_result.op = "execute_tool" /\ Declaring(pm_result.name) # {}) =>
              pm_result.result.executed \in {0, LastLoaded(Declaring(pm_result.name))}
        /\ \A p \in PluginIds : disk[p].load = "ok" => ErrorsOf(p) = {}

\* two loaded tools declare the same name and a request for it was executed
\* by the later one
WitnessC24 ==
    /\ pm_result.op = "execute_tool"
    /\ Cardinality(Declaring(pm_result.name)) > 1
    /\ pm_result.result.executed = LastLoaded(Declaring(pm_result.name))

\* ---------------------------------------------------------------------
\* the enabled plugins of a collection that declare name n
EnabledDeclaring(coll, n) ==
    {p \in SeqToSet(coll) : plug[p].enabled /\ n \in disk[p].names}

\* C25: the answer of get_capabilities() holds, for each name, the
\* descriptor of the last-loaded plugin that declares it and is enabled at
\* the call, and no entry for a name that no enabled plugin declares
ClaimC25 ==
    pm_result.op = "get_capabilities" =>
        \A n \in ToolNames :
            /\ pm_result.result.triggers[n] =
                  IF EnabledDeclaring(pm.triggers, n) = {} THEN 0
                  ELSE LastLoaded(EnabledDeclaring(pm.triggers, n))
            /\ pm_result.result.tools[n] =
                  IF EnabledDeclaring(pm.tools, n) = {} THEN 0
                  ELSE LastLoaded(EnabledDeclaring(pm.tools, n))

\* a plugin disabled after discovery is missing from the answer
WitnessC25 ==
    /\ pm_result.op = "get_capabilities"
    /\ \E p \in SeqToSet(Registered) :
          /\ ~plug[p].enabled
          /\ \A n \in ToolNames : pm_result.result.triggers[n] # p
                                   /\ pm_result.result.tools[n] # p

\* ---------------------------------------------------------------------
\* ToolSubscriptionHandler: publications of the tools channel
\* (src/core/server_client.py)

\* publications received in one run
MaxPublications == 3

PublicationIds == 1..MaxPublications

\* ctx.pub.data: a dict with a type, a dict without one, something that is
\* not a dict
PublicationData == {"task", "untyped", "text"}

\* ToolTask.from_dict: data.get(...) with defaults; it raises when data has
\* no get method
from_dict(data) ==
    CASE data = "task" -> [raised |-> FALSE, type |-> "tool"]
      [] data = "untyped" -> [raised |-> FALSE, type |-> ""]
      [] OTHER -> [raised |-> TRUE, type |-> ""]

\* an event loop that runs the task created last first
next_task_lifo(tasks) == tasks[Len(tasks)]

\* the task the event loop runs next: asyncio.create_task (line 71) puts
\* the task's first step at the end of the loop's queue of ready
\* callbacks, which are run in the order in which they were put there
next_task(tasks) == Head(tasks)

\* ToolSubscriptionHandler.__init__
InitSub ==
    [pc |-> "idle",                                   \* "in_publication": on_publication runs
     data |-> <<>>,                                   \* the publications received
     tasks |-> <<>>,                                  \* _background_tasks not yet run, as created
     dispatched |-> <<>>,                             \* publications in the order of their callbacks
     calls |-> [i \in PublicationIds |-> 0],          \* times _callback got publication i
     inline |-> {},                                   \* called back before on_publication returned
     logged |-> {}]                                   \* publications with an error logged

\* on_publication that calls the callback itself
on_publication_inline(s, data) ==
    LET i == Len(s.data) + 1
        s1 == [s EXCEPT !.pc = "in_publication", !.data = Append(@, data)]
    IN IF from_dict(data).raised THEN [s1 EXCEPT !.logged = @ \cup {i}]
       ELSE [s1 EXCEPT !.calls[i] = @ + 1, !.inline = @ \cup {i},
                       !.dispatched = Append(@, i)]

\* ToolSubscriptionHandler.on_publication up to its return
on_publication(s, data) ==
    LET i == Len(s.data) + 1
        s1 == [s EXCEPT !.pc = "in_publication", !.data = Append(@, data)]
    IN IF from_dict(data).raised THEN [s1 EXCEPT !.logged = @ \cup {i}]
       ELSE [s1 EXCEPT !.tasks = Append(@, i)]

\* ToolSubscriptionHandler._handle_tool: the callback is called; what it
\* throws is logged
handle_tool(s, i, throws) ==
    [s EXCEPT !.tasks = SelectSeq(@, LAMBDA x : x # i),
              !.calls[i] = @ + 1,
              !.dispatched = Append(@, i),
              !.inline = IF s.pc = "in_publication" THEN @ \cup {i} ELSE @,
              !.logged = IF throws THEN @ \cup {i} ELSE @]

SubInit ==
    /\ HttpIdle /\ AppIdle
    /\ ExtraIdle
    /\ client = InitClient
    /\ clients = [c \in ClientIds |-> "unused"]
    /\ conn = [pc \in ConnectPcs |-> 0]
    /\ disc = [pc |-> "idle", target |-> 0]
    /\ configured = FALSE
    /\ g = InitG
    /\ last = Step("off", "env")
    /\ PMIdle /\ BusIdle
    /\ sub = InitSub

\* the read loop of the centrifuge client awaits on_publication(ctx)
OnPublication(data) ==
    /\ sub.pc = "idle"
    /\ Len(sub.data) < MaxPublications
    /\ sub' = on_publication(sub, data)
    /\ UNCHANGED <<connVars, http, app, extraVars, pmVars, busVars>>

\* on_publication returns: the event loop may run the tasks it created
OnPublicationReturn ==
    /\ sub.pc = "in_publication"
    /\ sub' = [sub EXCEPT !.pc = "idle"]
    /\ UNCHANGED <<connVars, http, app, extraVars, pmVars, busVars>>

\* the event loop runs a task while no other coroutine is running
HandleTool(i, throws) ==
    /\ sub.pc = "idle"
    /\ sub.tasks # <<>>
    /\ i = next_task(sub.tasks)
    /\ sub' = handle_tool(sub, i, throws)
    /\ UNCHANGED <<connVars, http, app, extraVars, pmVars, busVars>>

SubNext ==
    \/ \E data \in PublicationData : OnPublication(data)
    \/ OnPublicationReturn
    \/ \E i \in PublicationIds, throws \in BOOLEAN : HandleTool(i, throws)

SpecSub == SubInit /\ [][SubNext]_vars

\* the task of publication i has been created and has not run
Pending(i) == \E k \in 1..Len(sub.tasks) : sub.tasks[k] = i

\* C26: a publication that decodes has had its callback called once or its
\* task is pending, never both and never within on_publication; one that
\* does not decode is logged and has neither, whatever the earlier
\* publications and callbacks did
ClaimC26 ==
    sub.pc # "off" =>
        /\ \A i \in 1..Len(sub.data) :
              IF from_dict(sub.data[i]).raised
              THEN sub.calls[i] = 0 /\ ~Pending(i) /\ i \in sub.logged
              ELSE sub.calls[i] + (IF Pending(i) THEN 1 ELSE 0) = 1
        /\ sub.inline = {}

\* a publication was dispatched after one that did not decode and one
\* whose callback threw
WitnessC26 ==
    /\ Len(sub.data) = 3
    /\ sub.data[1] = "text" /\ sub.calls[2] = 1 /\ sub.calls[3] = 1
    /\ 2 \in sub.logged
    /\ sub.tasks = <<>>

\* ---------------------------------------------------------------------
\* C27: connect() asks the token endpoint only while no token is cached
ClaimC27 ==
    last.op = "connect_called" => ~client.tokens

\* ---------------------------------------------------------------------
\* retry_async: the backoff delays (src/core/retry.py lines 106-114)

\* largest number of attempts of a call whose delays are followed
MaxBackoffAttempts == 8

\* random.random(), in hundredths
RandomValues == {0, 50, 99}

\* the RetryConfig values tried: the defaults and a second value of each
\* of initial_delay and exponential_base
RetryConfigs ==
    [max_attempts : {MaxBackoffAttempts}, initial_delay : {1 * Ms, 5 * Ms},
     max_delay : {60 * Ms}, exponential_base : {2, 3}, jitter : BOOLEAN]

\* a delay that is not capped by max_delay
backoff_delay_uncapped(config, attempt, random) ==
    LET delay == config.initial_delay * Pow(config.exponential_base, attempt - 1)
    IN IF config.jitter THEN (delay * (100 + random)) \div 200 ELSE delay

\* wrapper, lines 106-114: the delay slept after attempt `attempt` failed;
\* random is the value random.random() returns
backoff_delay(config, attempt, random) ==
    LET delay == Min(config.initial_delay * Pow(config.exponential_base, attempt - 1),
                     config.max_delay)
    IN IF config.jitter THEN (delay * (100 + random)) \div 200 ELSE delay

\* a function decorated with retry_async(config) has been called
BackoffInit ==
    /\ AppIdle /\ SubIdle
    /\ ExtraIdle
    /\ client = InitClient
    /\ clients = [c \in ClientIds |-> "unused"]
    /\ conn = [pc \in ConnectPcs |-> 0]
    /\ disc = [pc |-> "idle", target |-> 0]
    /\ configured = FALSE
    /\ g = InitG
    /\ last = Step("off", "env")
    /\ PMIdle /\ BusIdle
    /\ \E config \in RetryConfigs :
          http = [op |-> "backoff", config |-> config, delays |-> <<>>,
                  w |-> wrapper_begin("retry", config.max_attempts)]

\* the wrapped function returns or raises; a transient error before the
\* last attempt is followed by the sleep of the computed delay
BackoffFuncDone(outcome, random) ==
    /\ http.op = "backoff"
    /\ http.w.pc = "call"
    /\ ~http.config.jitter => random = 0
    /\ LET w == wrapper_after_call(http.w, outcome) IN
       http' = [http EXCEPT
                  !.w = [w EXCEPT !.calls = <<>>],
                  !.delays = IF w.pc = "sleep"
                             THEN Append(@, backoff_delay(http.config, http.w.attempt, random))
                             ELSE @]
    /\ UNCHANGED <<connVars, app, sub, extraVars, pmVars, busVars>>

\* asyncio.sleep(delay) is over
BackoffSleepDone ==
    /\ http.op = "backoff"
    /\ http.w.pc = "sleep"
    /\ http' = [http EXCEPT !.w = wrapper_after_sleep(@)]
    /\ UNCHANGED <<connVars, app, sub, extraVars, pmVars, busVars>>

BackoffNext ==
    \/ \E outcome \in {o \in FuncOutcomes :
                          o.kind = "return" \/ o.exc.type \in {"ConnectionError", "ValueError"}},
          random \in RandomValues : BackoffFuncDone(outcome, random)
    \/ BackoffSleepDone

SpecBackoff == BackoffInit /\ [][BackoffNext]_vars

\* the delays of initial_delay 1 s, base 2, max_delay 60 s
DefaultDelays == <<1 * Ms, 2 * Ms, 4 * Ms, 8 * Ms, 16 * Ms, 32 * Ms, 60 * Ms, 60 * Ms, 60 * Ms>>

\* C28: without jitter the first delay is initial_delay, each later delay
\* is the one before it times exponential_base, none exceeds max_delay and
\* the sequence never decreases; with initial_delay 1 s, base 2 and
\* max_delay 60 s the delays are 1, 2, 4, 8, 16, 32, 60, 60, ... seconds
ClaimC28 ==
    (http.op = "backoff" /\ ~http.config.jitter) =>
        LET d == http.delays
            c == http.config
        IN /\ Len(d) > 0 => d[1] = Min(c.initial_delay, c.max_delay)
           /\ \A k \in 1..Len(d) :
                 /\ d[k] <= c.max_delay
                 /\ k > 1 => d[k] = Min(d[k - 1] * c.exponential_base, c.max_delay)
                 /\ k > 1 => d[k - 1] <= d[k]
           /\ (c.initial_delay = 1 * Ms /\ c.exponential_base = 2) =>
                 \A k \in 1..Min(Len(d), Len(DefaultDelays)) : d[k] = DefaultDelays[k]

\* seven retries of the default configuration were slept: the seventh
\* delay is the cap
WitnessC28 ==
    /\ http.op = "backoff"
    /\ ~http.config.jitter
    /\ http.config.initial_delay = 1 * Ms /\ http.config.exponential_base = 2
    /\ Len(http.delays) = 7
    /\ http.delays[7] = 60 * Ms

\* ---------------------------------------------------------------------
\* the delays of the default reconnect_interval of 5 s
DefaultReconnectDelays == <<5 * Ms, 10 * Ms, 20 * Ms, 40 * Ms, 60 * Ms, 60 * Ms>>

\* the step creates a reconnect task
TaskCreated == client'.tasks_alive > client.tasks_alive

\* the step is the reconnect task's call of connect()
TaskConnects == last'.op = "connect_called" /\ last'.who = "task"

BusBothNext ==
    \/ \E topic \in BusTopics : Subscribe(topic, 1)
    \/ \E topic \in BusTopics : AsyncSubscribe(topic, 1)
    \/ \E topic \in BusTopics : AsyncUnsubscribe(topic, 1)
    \/ \E topic \in BusTopics : Publish(topic, {})
    \/ \E topic \in BusTopics : PublishAsyncCall(topic, {})
    \/ \E i \in 1..MaxAsyncSubs : HandlerStart(i)
    \/ \E i \in 1..MaxAsyncSubs : HandlerFinish(i, TRUE)
    \/ GatherReturn

SpecBusBoth == InitBus /\ [][BusBothNext]_vars

\* the topic has no handler in the dict d: it has no key (lines 112 and 131)
\* or its list is empty, every handler having been removed
NoSubscribers(d, topic) == topic \notin DOMAIN d \/ d[topic] = <<>>

\* the number of handlers the recorded publication has invoked
Invoked(p) ==
    IF p.op = "publish" THEN Len(p.dispatched)
    ELSE IF p.op = "publish_async"
         THEN Cardinality({i \in 1..Len(p.tasks) : p.tasks[i].st \notin {"pending", "nostart"}})
         ELSE 0

\* C30: a publish, and a publish_async, to a topic that has no handler of
\* its kind invokes no handler, creates no task, returns at once without
\* raising and leaves both handler dicts as they were; a handler subscribed
\* after such a publication is not invoked for it
ClaimC30 ==
    [][/\ (pub'.op = "publish" /\ NoSubscribers(sync_handlers, pub'.topic))
            => /\ pub'.dispatched = <<>>
               /\ ~pub'.raised
               /\ UNCHANGED <<sync_handlers, async_handlers>>
       /\ (/\ pub'.op = "publish_async"
           /\ NoPublishAsyncInFlight
           /\ NoSubscribers(async_handlers, pub'.topic))
            => /\ pub'.tasks = <<>>
               /\ pub'.pc = "returned"
               /\ ~pub'.raised
               /\ UNCHANGED <<sync_handlers, async_handlers>>
       /\ (/\ pub.op \in {"publish", "publish_async"}
           /\ Invoked(pub) = 0
           /\ <<sync_handlers, async_handlers>>' # <<sync_handlers, async_handlers>>)
            => Invoked(pub') = 0]_vars

\* a publish_async has returned for a topic whose list every handler had
\* been removed from, while the topic has a synchronous handler and the
\* other topic an asynchronous one
WitnessC30 ==
    /\ pub.op = "publish_async"
    /\ pub.pc = "returned"
    /\ pub.topic \in DOMAIN async_handlers
    /\ async_handlers[pub.topic] = <<>>
    /\ pub.tasks = <<>>
    /\ ~NoSubscribers(sync_handlers, pub.topic)
    /\ \E t \in DOMAIN async_handlers : async_handlers[t] # <<>>

\* ---------------------------------------------------------------------
\* unsubscribe (event_bus.py:82-102)
\* ---------------------------------------------------------------------

\* the handlers of the topic in the dict d, <<>> without a key
HandlersOf(d, topic) == IF topic \in DOMAIN d THEN d[topic] ELSE <<>>

\* the number of registrations of the handler in the list
Occurrences(list, handler) ==
    Cardinality({i \in 1..Len(list) : list[i] = handler})

\* the registrations of the other handlers, in order
Others(list, handler) ==
    LET keep(x) == x # handler IN SelectSeq(list, keep)

\* the step is a call unsubscribe(pub'.topic, pub'.handler)
UnsubscribeStep == pub'.op = "unsubscribe"

\* what unsubscribe(topic, handler) did to the dict d, d2 being the dict
\* after the call: no key appears or goes, the other topics keep their
\* lists, a handler that is not registered leaves the list as it was, and
\* otherwise one registration of the handler goes and the other handlers
\* keep their order
RemovedOne(d, d2, topic, handler) ==
    /\ DOMAIN d2 = DOMAIN d
    /\ \A t \in DOMAIN d : t # topic => d2[t] = d[t]
    /\ Occurrences(HandlersOf(d, topic), handler) = 0 => d2 = d
    /\ Occurrences(HandlersOf(d, topic), handler) > 0 =>
          /\ Occurrences(HandlersOf(d2, topic), handler)
                = Occurrences(HandlersOf(d, topic), handler) - 1
          /\ Others(HandlersOf(d2, topic), handler) = Others(HandlersOf(d, topic), handler)

\* C31 as stated: an unsubscribe of a handler that is not registered on the
\* topic leaves the lists unchanged, and after an unsubscribe of a handler
\* that was subscribed to the topic a publish on the topic no longer
\* invokes it, the other handlers keeping their order
ClaimC31 ==
    [][UnsubscribeStep =>
        /\ RemovedOne(sync_handlers, sync_handlers', pub'.topic, pub'.handler)
        /\ RemovedOne(async_handlers, async_handlers', pub'.topic, pub'.handler)
        /\ Occurrences(HandlersOf(sync_handlers', pub'.topic), pub'.handler) = 0
        /\ Occurrences(HandlersOf(async_handlers', pub'.topic), pub'.handler) = 0]_vars

\* C31 amended: unsubscribe takes one registration of the handler, the
\* first, out of the topic's synchronous list and one out of its
\* asynchronous list; a handler registered once is no longer invoked, one
\* registered n > 1 times is still invoked n - 1 times
AmendedC31 ==
    [][UnsubscribeStep =>
        /\ RemovedOne(sync_handlers, sync_handlers', pub'.topic, pub'.handler)
        /\ RemovedOne(async_handlers, async_handlers', pub'.topic, pub'.handler)
        /\ Occurrences(HandlersOf(sync_handlers, pub'.topic), pub'.handler) <= 1
              => Occurrences(dispatch(HandlersOf(sync_handlers', pub'.topic), {}, <<>>).dispatched,
                             pub'.handler) = 0
        /\ \A n \in 2..MaxSubs :
              Occurrences(HandlersOf(sync_handlers, pub'.topic), pub'.handler) = n
              => Occurrences(dispatch(HandlersOf(sync_handlers', pub'.topic), {}, <<>>).dispatched,
                             pub'.handler) = n - 1]_vars

\* an unsubscribe has returned for a handler that is still registered on
\* the topic, behind another handler
WitnessC31 ==
    /\ pub.op = "unsubscribe"
    /\ LET list == HandlersOf(sync_handlers, pub.topic) IN
       /\ Len(list) >= 2
       /\ list[1] # pub.handler
       /\ Occurrences(list, pub.handler) = 1

\* ---------------------------------------------------------------------
\* MCPServerManager: the trigger queue (mcp_server.py:129-131, 192-234)
\* ---------------------------------------------------------------------

MAX_TRIGGER_QUEUE_SIZE == 100

\* trigger events fired in a run; an event is its arrival number
MaxTriggerEvents == 103

\* the max_count arguments of get_pending_triggers
MaxCounts == {0, 10, 250}

Max(a, b) == IF a >= b THEN a ELSE b

\* asyncio.Queue(maxsize).put_nowait
put_nowait(queue, item) ==
    IF Len(queue) >= MAX_TRIGGER_QUEUE_SIZE
    THEN [queue |-> queue, exc |-> "QueueFull"]
    ELSE [queue |-> Append(queue, item), exc |-> "none"]

\* asyncio.Queue.get_nowait
get_nowait(queue) ==
    IF queue = <<>>
    THEN [queue |-> queue, exc |-> "QueueEmpty"]
    ELSE [queue |-> Tail(queue), exc |-> "none"]

\* an on_trigger that leaves a full queue as it is
on_trigger_dropping_newest(queue, event) ==
    LET put == put_nowait(queue, event) IN
    [queue |-> put.queue, raised |-> FALSE]

\* MCPServerManager.on_trigger: the queue after the call, and whether an
\* exception left the method (a QueueFull of the second put_nowait would)
on_trigger(queue, event) ==
    LET put == put_nowait(queue, event) IN
    IF put.exc = "none" THEN [queue |-> put.queue, raised |-> FALSE]
    ELSE LET got == get_nowait(queue) IN
         IF got.exc = "QueueEmpty" THEN [queue |-> queue, raised |-> FALSE]
         ELSE LET again == put_nowait(got.queue, event) IN
              [queue |-> again.queue, raised |-> again.exc # "none"]

\* get_pending_triggers(max_count): the events returned and the queue left
get_pending_triggers(queue, max_count) ==
    LET n == Min(Min(Max(1, max_count), 100), Len(queue)) IN
    [events |-> SubSeq(queue, 1, n), queue |-> SubSeq(queue, n + 1, Len(queue))]

\* MCPServerManager.__init__; arrived: the events fired so far
InitMcp == [pc |-> "on", trigger_queue |-> <<>>, arrived |-> 0,
            op |-> "init", raised |-> FALSE, polled |-> <<>>]

McpInit ==
    /\ HttpIdle /\ AppIdle /\ SubIdle
    /\ mcp = InitMcp
    /\ ws = [op |-> "off"]
    /\ client = InitClient
    /\ clients = [c \in ClientIds |-> "unused"]
    /\ conn = [pc \in ConnectPcs |-> 0]
    /\ disc = [pc |-> "idle", target |-> 0]
    /\ configured = FALSE
    /\ g = InitG
    /\ last = Step("off", "env")
    /\ PMIdle /\ BusIdle

\* the event bus calls on_trigger with the next trigger event
OnTrigger ==
    /\ mcp.arrived < MaxTriggerEvents
    /\ LET event == mcp.arrived + 1
           r == on_trigger(mcp.trigger_queue, event)
       IN mcp' = [mcp EXCEPT !.trigger_queue = r.queue, !.arrived = event,
                             !.op = "on_trigger", !.raised = r.raised,
                             !.polled = <<>>]
    /\ UNCHANGED <<connVars, http, app, sub, ws, pmVars, busVars>>

\* an MCP client calls the get_pending_triggers tool
GetPendingTriggers(max_count) ==
    /\ LET r == get_pending_triggers(mcp.trigger_queue, max_count) IN
       mcp' = [mcp EXCEPT !.trigger_queue = r.queue, !.op = "get_pending_triggers",
                         !.polled = r.events]
    /\ UNCHANGED <<connVars, http, app, sub, ws, pmVars, busVars>>

McpNext ==
    \/ OnTrigger
    \/ \E max_count \in MaxCounts : GetPendingTriggers(max_count)

SpecMcp == McpInit /\ [][McpNext]_vars

\* the events from..to in arrival order
Arrivals(from, to) == [i \in 1..(to - from + 1) |-> from + i - 1]

\* C32: the trigger queue never holds more than 100 events; on_trigger
\* does not raise and the event it was called with is the last of the
\* queue; the queue holds the most recent events, without a gap, in
\* arrival order (a full queue had its oldest event dropped)
ClaimC32 ==
    /\ Len(mcp.trigger_queue) <= MAX_TRIGGER_QUEUE_SIZE
    /\ ~mcp.raised
    /\ mcp.op = "on_trigger" =>
          /\ mcp.trigger_queue # <<>>
          /\ mcp.trigger_queue[Len(mcp.trigger_queue)] = mcp.arrived
    /\ mcp.trigger_queue =
          Arrivals(mcp.arrived - Len(mcp.trigger_queue) + 1, mcp.arrived)

\* on_trigger was called with a full queue: the two oldest events have
\* been dropped and 100 events are queued
WitnessC32 ==
    /\ mcp.arrived = MAX_TRIGGER_QUEUE_SIZE + 2
    /\ Len(mcp.trigger_queue) = MAX_TRIGGER_QUEUE_SIZE
    /\ mcp.trigger_queue[1] = 3
    /\ mcp.op = "on_trigger"

\* ---------------------------------------------------------------------
\* disconnect() during a directly requested connect()
\* (server_client.py:374-461)
\* ---------------------------------------------------------------------

\* C33: disconnect() was called while a directly requested connect() was in
\* progress and both have finished (no connect() has been requested since):
\* the client is not connected, holds no streaming client, subscription or
\* cached tokens, and auto-reconnect is off, no reconnect task being held
ClaimC33 ==
    (/\ g.since_disc = "returned"
     /\ g.direct_inflight
     /\ disc.pc = "idle"
     /\ ConnectsInProgress = 0)
        => /\ ~client.connected
           /\ client.ws_client = 0
           /\ client.subscription = 0
           /\ ~client.tokens
           /\ ~client.should_reconnect
           /\ client.reconnect_task = "none"

\* ---------------------------------------------------------------------
\* the order of the steps of connect() (server_client.py:374-429)
\* ---------------------------------------------------------------------

\* a connect() sequence, directly requested or run by the task, goes from
\* the await `from` to the await `to` in this step
Moved(from, to) ==
    \/ conn'[from] < conn[from] /\ conn'[to] > conn[to]
    \/ client.reconnect_task = from /\ client'.reconnect_task = to

\* a connect() sequence suspended in the await `from` ends in this step
\* without going to a further await
Left(from) ==
    \/ conn'[from] < conn[from] /\ \A pc \in ConnectPcs \ {from} : conn'[pc] = conn[pc]
    \/ client.reconnect_task = from /\ client'.reconnect_task \notin ConnectPcs

\* C34: tokens are cached and a Client is constructed only by a connect()
\* whose token fetch has just succeeded, a subscription is created only by
\* a connect() whose Client.connect() has just succeeded, on the client's
\* _ws_client; a connect() that ends in its token fetch constructs no
\* Client, one that ends while opening creates no subscription; connect()
\* returns True only out of its subscribe step; without configuration it
\* returns False at once and changes nothing
ClaimC34 ==
    [][/\ (~client.tokens /\ client'.tokens) => Moved("fetch", "wsconnect")
       /\ (\E c \in ClientIds : clients[c] = "unused" /\ clients'[c] = "live")
            => Moved("fetch", "wsconnect")
       /\ Left("fetch")
            => /\ clients' = clients
               /\ client'.ws_client = client.ws_client
               /\ client'.subscription = client.subscription
       /\ (client'.subscription # client.subscription /\ client'.subscription # 0)
            => /\ Moved("wsconnect", "subscribe")
               /\ client.ws_client # 0
               /\ client'.subscription = client.ws_client
       /\ Left("wsconnect") => client'.subscription = client.subscription
       /\ last'.op = "connect_returned_true" => Left("subscribe")
       /\ (last'.op = "connect_called" /\ last'.who = "direct") => configured
       /\ last'.op = "connect_skipped"
            => /\ ~configured
               /\ client' = client
               /\ conn' = conn
               /\ clients' = clients]_vars

\* a connect() has returned True: tokens cached, Client constructed and the
\* subscription created on it
WitnessC34 ==
    /\ last.op = "connect_returned_true"
    /\ client.tokens
    /\ client.ws_client # 0
    /\ client.subscription = client.ws_client

\* ---------------------------------------------------------------------
\* the order of the dispatches (server_client.py:69-95, 167-184)
\* ---------------------------------------------------------------------

\* the publications received that decode, in the order of their receipt
Decoded ==
    SelectSeq([i \in 1..Len(sub.data) |-> i], LAMBDA i : ~from_dict(sub.data[i]).raised)

StatusInit ==
    /\ HttpIdle
    /\ AppIdle
    /\ SubIdle
    /\ ExtraIdle
    /\ client = InitClient
    /\ clients = [c \in ClientIds |-> "unused"]
    /\ conn = [pc \in ConnectPcs |-> 0]
    /\ disc = [pc |-> "idle", target |-> 0]
    /\ configured \in BOOLEAN
    /\ g = [InitG EXCEPT !.status = "DISCONNECTED"]
    /\ last = Step("init", "env")
    /\ PMIdle /\ BusIdle

\* a suspended coroutine is resumed: an await of connect(), of the
\* reconnect task or of disconnect() is over
Resume ==
    \/ \E url \in BOOLEAN : FetchOk(url)
    \/ FetchFail
    \/ WsConnectOk
    \/ WsConnectFail
    \/ SubscribeOk
    \/ SubscribeFail
    \/ TaskWake
    \/ \E url \in BOOLEAN : TaskFetchOk(url)
    \/ TaskFetchFail
    \/ TaskWsConnectOk
    \/ TaskWsConnectFail
    \/ TaskSubscribeOk
    \/ TaskSubscribeFail
    \/ DisconnectUnsubscribed
    \/ DisconnectWsClosed

\* the transport of a Client that is open reports
Transport ==
    \E c \in ClientIds : TransportConnected(c) \/ TransportDropped(c)

SpecStatus == StatusInit /\ [][ClientNext]_vars

\* the event loop resumes every coroutine whose await is over, and a
\* transport that is open reports its state; requests are not forced
FairSpecStatus == SpecStatus /\ WF_vars(Resume) /\ WF_vars(Transport)

\* C36: whenever the coordinator shows CONNECTING, it later shows
\* CONNECTED, DISCONNECTED or ERROR
ClaimC36 ==
    (g.status = "CONNECTING") ~> (g.status \in {"CONNECTED", "DISCONNECTED", "ERROR"})

\* ---------------------------------------------------------------------
\* handlers that change the subscriptions while publish dispatches
\* (event_bus.py:54-66, 82-121)
\* ---------------------------------------------------------------------

\* the lists of handlers a topic can have when publish is called, each
\* handler subscribed once
HandlerLists ==
    {list \in UNION {[1..n -> HandlerIds] : n \in 1..NumHandlers} :
        \A i, j \in 1..Len(list) : list[i] = list[j] => i = j}

\* what a handler does when it is called: nothing, unsubscribe(topic, h)
\* or subscribe(topic, h), on the topic being published
HandlerEffects ==
    {[do |-> "nothing", h |-> 0]}
        \cup {[do |-> d, h |-> h] : d \in {"unsubscribe", "subscribe"}, h \in HandlerIds}

\* the bus with some handlers subscribed to one topic, no publish running
ReentrantInit ==
    /\ ClientIdle /\ PMIdle
    /\ async_handlers = <<>>
    /\ pub = [op |-> "other"]
    /\ \E list \in HandlerLists : sync_handlers = [t \in {"plugin.event"} |-> list]

\* publish(topic, data) is called: lines 112-117, the for loop gets its
\* iterator over the list object of the topic
PublishBegin(topic) ==
    /\ pub.op # "publishing"
    /\ topic \in DOMAIN sync_handlers
    /\ pub' = [op |-> "publishing", topic |-> topic, index |-> 0,
               start |-> sync_handlers[topic], invoked |-> <<>>, added |-> {}]
    /\ UNCHANGED <<sync_handlers, async_handlers>>
    /\ UNCHANGED <<clientVars, pmVars>>

\* one turn of the loop, lines 117-121: the iterator yields the element at
\* its index in the list as it is now, and the handler is called
HandlerCalled(effect) ==
    /\ pub.op = "publishing"
    /\ pub.index < Len(sync_handlers[pub.topic])
    /\ effect.do = "subscribe" => Len(sync_handlers[pub.topic]) < MaxSubs
    /\ LET h == sync_handlers[pub.topic][pub.index + 1] IN
       pub' = [pub EXCEPT !.index = @ + 1,
                          !.invoked = Append(@, h),
                          !.added = IF effect.do = "subscribe" THEN @ \cup {effect.h} ELSE @]
    /\ sync_handlers' =
          CASE effect.do = "unsubscribe" -> remove_handler(sync_handlers, pub.topic, effect.h)
            [] effect.do = "subscribe" -> append_handler(sync_handlers, pub.topic, effect.h)
            [] OTHER -> sync_handlers
    /\ async_handlers' =
          IF effect.do = "unsubscribe"
          THEN remove_handler(async_handlers, pub.topic, effect.h)
          ELSE async_handlers
    /\ UNCHANGED <<clientVars, pmVars>>

\* the iterator is exhausted: publish returns
PublishEnd ==
    /\ pub.op = "publishing"
    /\ pub.index >= Len(sync_handlers[pub.topic])
    /\ pub' = [pub EXCEPT !.op = "published"]
    /\ UNCHANGED <<sync_handlers, async_handlers>>
    /\ UNCHANGED <<clientVars, pmVars>>

ReentrantNext ==
    \/ \E topic \in BusTopics : PublishBegin(topic)
    \/ \E effect \in HandlerEffects : HandlerCalled(effect)
    \/ PublishEnd

SpecBusReentrant == ReentrantInit /\ [][ReentrantNext]_vars

\* C37: when publish returns, every handler that was registered for the
\* topic when it began has been invoked once per registration it had then
\* (at least so if it was subscribed again in between), whatever the
\* handlers unsubscribed or subscribed while they were called
ClaimC37 ==
    pub.op = "published" =>
        \A h \in HandlerIds :
            /\ Count(pub.invoked, h) >= Count(pub.start, h)
            /\ h \notin pub.added => Count(pub.invoked, h) = Count(pub.start, h)

\* ---------------------------------------------------------------------
\* routing against the capability manifest
\* (plugin_manager.py:170-185, 290-305, 372-389)
\* ---------------------------------------------------------------------

\* C38, for plugins that all loaded without an error: every tool name in
\* get_capabilities()['tools'] is routed by execute_tool to the execute
\* hook of an enabled plugin: the answer is neither 'no handler' nor
\* 'handler disabled'
ClaimC38 ==
    (/\ pm_phase \in {"discovered", "initialized"}
     /\ \A p \in PluginIds : disk[p].load = "ok")
        => \A n \in ToolNames :
              get_capabilities.tools[n] # 0 =>
                 \A behaviour \in Behaviours :
                    LET r == execute_tool(n, behaviour) IN
                    /\ r.error \notin {"no_handler", "disabled"}
                    /\ r.executed # 0
                    /\ plug[r.executed].enabled

\* ---------------------------------------------------------------------
\* settings changes whose _reconnect_server tasks interleave
\* (application.py:221-235, 271-287)
\* ---------------------------------------------------------------------

\* C39: once every _reconnect_server task has finished, each ServerClient
\* the coordinator replaced has had its close() awaited to the end, and the
\* one it references has not been closed
ClaimC39 ==
    (app.pc = "running" /\ app.tasks = <<>>)
        => /\ \A c \in 1..(app.server_client - 1) : c \in app.closed
           /\ app.server_client \notin app.closed

\* ---------------------------------------------------------------------
\* the streaming URL (server_client.py:266-290)
\* A URL is the sequence of its pieces: the scheme, "://", the labels of
\* the host separated by ".", optionally ":" and a port, optionally a path.
\* ---------------------------------------------------------------------

ENDPOINT_WEBSOCKET == <<"/connection/websocket">>

\* _ws_url before any token response, or a response without wsUrl
None == <<"None">>

Hosts ==
    { <<"api", ".", "agimate", ".", "io">>,
      <<"api", ".", "agimate", ".", "io", ":", "8443">>,
      <<"agimate", ".", "io">>,
      <<"localhost">>,
      <<"localhost", ":", "8080">>,
      <<"devbox">>,
      <<"127", ".", "0", ".", "0", ".", "1">>,
      <<"127", ".", "0", ".", "0", ".", "1", ":", "8080">> }

Schemes == {"http", "https"}

Paths == { <<>>, <<"/api">> }

ServerUrls ==
    { <<scheme, "://">> \o host \o path :
          scheme \in Schemes, host \in Hosts, path \in Paths }

\* what the token response may carry as wsUrl: nothing, an empty string, a URL
WsUrls ==
    { None, <<>>,
      <<"wss", "://", "custom-centrifugo", ".", "agimate", ".", "io",
        "/connection/websocket">> }

\* the first position of piece in s at or after from, 0 if there is none
RECURSIVE Find(_, _, _)
Find(s, piece, from) ==
    IF from > Len(s) THEN 0
    ELSE IF s[from] = piece THEN from
    ELSE Find(s, piece, from + 1)

IsPath(piece) == piece \in {"/api", "/connection/websocket"}

RECURSIVE FindPath(_, _)
FindPath(s, from) ==
    IF from > Len(s) THEN 0
    ELSE IF IsPath(s[from]) THEN from
    ELSE FindPath(s, from + 1)

\* urllib.parse.urlparse: the scheme before "://", the netloc up to the path
urlparse(url) ==
    LET p == FindPath(url, 3)
    IN [scheme |-> url[1],
        netloc |-> SubSeq(url, 3, IF p = 0 THEN Len(url) ELSE p - 1)]

\* str.split(sep, 1)
split_once(str, sep) ==
    LET i == Find(str, sep, 1)
    IN IF i = 0 THEN <<str>>
       ELSE <<SubSeq(str, 1, i - 1), SubSeq(str, i + 1, Len(str))>>

\* `if self._ws_url`: None and the empty string are false
Truthy(url) == url # None /\ url # <<>>

get_ws_url(server_url, ws_url) ==
    IF Truthy(ws_url) THEN ws_url
    ELSE LET parsed == urlparse(server_url)
             host == parsed.netloc
             parts == split_once(host, ".")
         IN IF Len(parts) = 2
            THEN <<"wss", "://", "centrifugo", ".">> \o parts[2]
                     \o ENDPOINT_WEBSOCKET
            ELSE <<IF parsed.scheme = "https" THEN "wss" ELSE "ws", "://">>
                     \o host \o ENDPOINT_WEBSOCKET

\* a ServerClient constructed with a server URL, no token response yet
WsInit ==
    /\ HttpIdle /\ AppIdle /\ SubIdle
    /\ mcp = [pc |-> "off"]
    /\ ws \in [op : {"init"}, server_url : ServerUrls, ws_url : {None},
               result : {None}]
    /\ client = InitClient
    /\ clients = [c \in ClientIds |-> "unused"]
    /\ conn = [pc \in ConnectPcs |-> 0]
    /\ disc = [pc |-> "idle", target |-> 0]
    /\ configured = FALSE
    /\ g = InitG
    /\ last = Step("off", "env")
    /\ PMIdle /\ BusIdle

\* _fetch_centrifugo_tokens succeeds: the response's wsUrl is stored
FetchTokens(wsUrl) ==
    /\ ws.op # "off"
    /\ ws' = [ws EXCEPT !.op = "fetch", !.ws_url = wsUrl]
    /\ UNCHANGED <<connVars, http, app, sub, mcp, pmVars, busVars>>

GetWsUrl ==
    /\ ws.op # "off"
    /\ ws' = [ws EXCEPT !.op = "get_ws_url",
                        !.result = get_ws_url(ws.server_url, ws.ws_url)]
    /\ UNCHANGED <<connVars, http, app, sub, mcp, pmVars, busVars>>

WsNext ==
    \/ \E wsUrl \in WsUrls : FetchTokens(wsUrl)
    \/ GetWsUrl

SpecWs == WsInit /\ [][WsNext]_vars

\* the host of a server URL with its port, and the path, as they were written
HostOf(url) ==
    CHOOSE host \in Hosts : \E path \in Paths : url = <<url[1], "://">> \o host \o path

\* the host without its port
NameOf(host) ==
    LET c == Find(host, ":", 1)
    IN IF c = 0 THEN host ELSE SubSeq(host, 1, c - 1)

\* a single-label host, localhost, or an IPv4 literal
IsLocal(host) ==
    \/ Find(NameOf(host), ".", 1) = 0
    \/ NameOf(host)[1] \in {"localhost", "127"}

\* C40: a URL supplied by the server is returned as it is; without one, a
\* host of several DNS labels gets its first label replaced by centrifugo
\* and the scheme wss, and a single-label or local host (localhost,
\* 127.0.0.1, with or without port) is kept with ws for http and wss for https
ClaimC40 ==
    ws.op = "get_ws_url" =>
        LET host == HostOf(ws.server_url)
        IN IF Truthy(ws.ws_url) THEN ws.result = ws.ws_url
           ELSE IF IsLocal(host)
           THEN ws.result =
                    <<IF ws.server_url[1] = "https" THEN "wss" ELSE "ws",
                      "://">> \o host \o ENDPOINT_WEBSOCKET
           ELSE ws.result =
                    <<"wss", "://", "centrifugo">>
                        \o SubSeq(host, 2, Len(host)) \o ENDPOINT_WEBSOCKET

\* the same without the IPv4 literals: what the code does for every other host
ClaimC40Names ==
    (ws.op = "get_ws_url" /\ HostOf(ws.server_url)[1] # "127") => ClaimC40

====
